---- MODULE Spec2Model ----
(***************************************************************************)
(* ExecPlan document store of agentrules: create_execplan,                 *)
(* archive_execplan, create_execplan_milestone, archive_execplan_milestone *)
(* and the registry rebuild, run by independent OS processes over one      *)
(* execplans directory tree.                                               *)
(*                                                                         *)
(* A path is the sequence of its components below the execplans root; a    *)
(* component is a record so that the filename parsers of the source can    *)
(* be written as what they extract:                                        *)
(*   k = "dir"   a directory or other plain name n                         *)
(*   k = "num"   an all-digit name of value d and width m (2026, 02, 12)   *)
(*   k = "leaf"  the archive leaf  EP-<d>-<s>_<n>                          *)
(*   k = "plan"  the plan file     EP-<d>-<s>_<n>.md                       *)
(*   k = "ms"    the milestone     MS<m>_<n>.md                            *)
(*   k = "lms"   the legacy name   EP-<d>-<s>_MS<m>_<n>.md                 *)
(*   k = "lock"  the lock file     EP-<d>-<s>.lock                         *)
(*   k = "md"    any other file    <n>.md                                  *)
(***************************************************************************)
EXTENDS Integers, Sequences, FiniteSets, TLC

\* ---------------------------------------------------------------- bounds
MaxOps == 3
MaxConcurrentOps == 2
MaxFaults == 2
MaxExternal == 1
MaxProbeLen == 7
MaxItems == 3

\* ------------------------------------------------------ program constants
MaxPlanSequence == 999
MaxMilestoneSequence == 999
_MILESTONE_CREATE_RETRIES == 32
_WINDOWS_LOCK_RETRIES == 200

MILESTONES_DIR == "milestones"
ACTIVE_DIR == "active"
ARCHIVE_DIR == "archive"
EXECPLAN_ACTIVE_DIR == "active"
EXECPLAN_ARCHIVE_DIR == "archive"
_LOCKS_DIRNAME == ".locks"
RESERVED_EXECPLAN_ROOT_SLUGS == {EXECPLAN_ACTIVE_DIR, EXECPLAN_ARCHIVE_DIR}
RESERVED_ACTIVE_PLAN_SLUGS == {MILESTONES_DIR}

\* ------------------------------------------------------------ input sets
Procs == {"p1", "p2"}
NoProc == "none"
D1 == 20260207
D2 == 20260212
CreateDays == {D1}
ArchiveDays == {D2}
CreateDayInputs == {D1, D2}
Slugs == {"a", "b"}
SlugInputs == Slugs \cup {MILESTONES_DIR}
MsSlug == "m"
\* update_registry: the default of both calls
UpdInputs == {TRUE}

NoId == [d |-> 0, s |-> 0]
Id(d, s) == [d |-> d, s |-> s]
IdInputs == {Id(D1, 1), Id(D1, 2)}
MsSeqInputs == {1, 2}
MainProc == "p1"

\* ------------------------------------------------------- path components
Dir(name) == [k |-> "dir", n |-> name, d |-> 0, s |-> 0, m |-> 0]
NumDir(value, width) == [k |-> "num", n |-> "", d |-> value, s |-> 0, m |-> width]
\* f"{execplan_id}_{source_plan_root.name}": m counts the EP-<id>_ prefixes the
\* source name already carries (0 for a slug directory).
LeafDir(id, base) ==
    [k |-> "leaf", n |-> base.n, d |-> id.d, s |-> id.s,
     m |-> IF base.k = "leaf" THEN base.m + 1 ELSE 0]
PlanFile(id, slug) == [k |-> "plan", n |-> slug, d |-> id.d, s |-> id.s, m |-> 0]
MsFile(seq, slug) == [k |-> "ms", n |-> slug, d |-> 0, s |-> 0, m |-> seq]
LegacyMsFile(id, seq, slug) == [k |-> "lms", n |-> slug, d |-> id.d, s |-> id.s, m |-> seq]
LockFile(id) == [k |-> "lock", n |-> "", d |-> id.d, s |-> id.s, m |-> 0]

Named(c, name) == c.k = "dir" /\ c.n = name
OtherMd(name) == [k |-> "md", n |-> name, d |-> 0, s |-> 0, m |-> 0]
IsMd(c) == c.k \in {"plan", "ms", "lms", "md"}
\* glob pattern EP-*.md
IsEpMd(c) == c.k \in {"plan", "lms"}

\* strftime("%Y"), ("%m"), ("%d") of a YYYYMMDD day token
YearOf(day) == day \div 10000
MonthOf(day) == (day \div 100) % 100
DayOf(day) == day % 100

\* ----------------------------------------------------------- identity.py
parse_execplan_filename(c) ==
    IF c.k \in {"plan", "lms", "leaf"}
    THEN [ok |-> TRUE, id |-> Id(c.d, c.s), date |-> c.d, sequence |-> c.s]
    ELSE [ok |-> FALSE, id |-> NoId, date |-> 0, sequence |-> 0]

extract_execplan_id_from_filename(c) == parse_execplan_filename(c).id

\* -------------------------------------------------------------- paths.py
_looks_like_archive_date(year, month, day) ==
    /\ year.k = "num" /\ year.m = 4
    /\ month.k = "num" /\ month.m = 2
    /\ day.k = "num" /\ day.m = 2
    /\ 1 <= month.d /\ month.d <= 12
    /\ 1 <= day.d /\ day.d <= 31

NoLayout == [ok |-> FALSE, plan_root |-> <<>>, is_archived |-> FALSE]
Layout(root, archived) == [ok |-> TRUE, plan_root |-> root, is_archived |-> archived]

_classify_execplan_layout(parts) ==
    IF Len(parts) >= 3 /\ Named(parts[1], EXECPLAN_ACTIVE_DIR)
    THEN Layout(SubSeq(parts, 1, 2), FALSE)
    ELSE IF Len(parts) >= 2 /\ Named(parts[1], EXECPLAN_ACTIVE_DIR)
    THEN Layout(SubSeq(parts, 1, 1), FALSE)
    ELSE IF /\ Len(parts) >= 6
            /\ Named(parts[1], EXECPLAN_ARCHIVE_DIR)
            /\ _looks_like_archive_date(parts[2], parts[3], parts[4])
    THEN Layout(SubSeq(parts, 1, 5), TRUE)
    ELSE IF /\ Len(parts) >= 3
            /\ Named(parts[2], EXECPLAN_ARCHIVE_DIR)
            /\ ~Named(parts[1], EXECPLAN_ACTIVE_DIR)
    THEN Layout(SubSeq(parts, 1, 2), TRUE)
    ELSE IF Len(parts) >= 2 /\ ~Named(parts[1], EXECPLAN_ACTIVE_DIR)
    THEN Layout(SubSeq(parts, 1, 1), FALSE)
    ELSE NoLayout

InActiveOrArchive(c) == Named(c, ACTIVE_DIR) \/ Named(c, ARCHIVE_DIR)

is_execplan_milestone_path(parts) ==
    \/ /\ Len(parts) >= 4
       /\ Named(parts[1], EXECPLAN_ACTIVE_DIR)
       /\ Named(parts[3], MILESTONES_DIR)
       /\ InActiveOrArchive(parts[4])
    \/ /\ Len(parts) >= 7
       /\ Named(parts[1], EXECPLAN_ARCHIVE_DIR)
       /\ _looks_like_archive_date(parts[2], parts[3], parts[4])
       /\ Named(parts[6], MILESTONES_DIR)
       /\ InActiveOrArchive(parts[7])
    \/ /\ Len(parts) >= 3
       /\ Named(parts[2], MILESTONES_DIR)
       /\ InActiveOrArchive(parts[3])
    \/ /\ Len(parts) >= 4
       /\ Named(parts[2], EXECPLAN_ARCHIVE_DIR)
       /\ Named(parts[3], MILESTONES_DIR)
       /\ InActiveOrArchive(parts[4])

get_execplan_plan_root(parts) == _classify_execplan_layout(parts)

\* fault: a path in a milestone subtree is classified by its layout alone
is_execplan_archive_path_by_layout(parts) == _classify_execplan_layout(parts).is_archived
is_execplan_archive_path(parts) ==
    IF is_execplan_milestone_path(parts)
    THEN FALSE
    ELSE _classify_execplan_layout(parts).is_archived

\* ------------------------------------------------------------------ state
VARIABLES
    files,      \* path -> content of every regular file under the execplans root
    dirs,       \* paths of the directories under the root (<<>> is the root itself)
    registry,   \* the registry file: NoRegistry or the plans last written
    lockHolder, \* ExecPlan id -> the process holding its flock, or NoProc
    pc,         \* process -> position in the running call
    loc,        \* process -> arguments, locals and outcome of its current/last call
    opsLeft,    \* calls and external changes that may still start
    faultsLeft, \* I/O failures that may still be injected
    created,    \* ids returned by create_execplan calls
    allocated,  \* id -> milestone numbers create_execplan_milestone allocated, in order
    concurrent, \* TRUE: processes interleave; FALSE: one call at a time
    extLeft,    \* external changes that may still happen
    \* locks.py, the byte-range (msvcrt) backend of file_lock
    winHolder,  \* the process holding the byte-range lock, or NoProc
    winPc,      \* process -> position in file_lock
    winTries,   \* process -> lock attempts made by the running _acquire_windows_lock
    winLog,     \* process -> what the running file_lock call has done so far
    \* async_stream.py, iterate_in_thread
    source,     \* the blocking iterator: its items, how it ends, the next item
    queue,      \* the asyncio.Queue between the worker thread and the consumer
    received,   \* what the async consumer has been handed, in order
    runnerPc,   \* position of _runner in the worker thread
    consumerPc, \* position of _aiter on the event loop
    \* paths.py, the classification of one path
    probePath,  \* the path handed to the classification functions
    probeOut    \* their answers for it

winVars == <<winHolder, winPc, winTries, winLog>>
streamVars == <<source, queue, received, runnerPc, consumerPc>>
pathVars == <<probePath, probeOut>>
componentVars == <<winVars, streamVars, pathVars>>

vars == <<files, dirs, registry, lockHolder, pc, loc, opsLeft, faultsLeft,
          created, allocated, concurrent, extLeft, componentVars>>

\* --------------------------------------------------------- file contents
\* Front matter of a plan: id, status, created, updated.  Front matter of a
\* milestone: id = execplan_id (NoId when missing, malformed or unparsable),
\* msid/msseq = the parsed "id" field EP-.../MS### (NoId when malformed).
engineVars == <<files, dirs, registry, lockHolder, pc, loc, opsLeft, faultsLeft,
                created, allocated, concurrent, extLeft>>

\* dep = the one entry of depends_on / supersedes: NoId for an empty list,
\* BadRef for an entry that is no EP-YYYYMMDD-NNN id.
Content(kind, id, status, day, updated, msid, msseq) ==
    [k |-> kind, id |-> id, status |-> status, created |-> day,
     updated |-> updated, msid |-> msid, msseq |-> msseq, dep |-> NoId,
     sup |-> NoId]
BadRef == [d |-> -1, s |-> -1]
\* strftime("%Y-%m-%d") of a YYYYMMDD day token
IsoDate(day) == [y |-> YearOf(day), m |-> MonthOf(day), d |-> DayOf(day)]
NoDate == [y |-> 0, m |-> 0, d |-> 0]
PlanContent(id, day) == Content("plan", id, "planned", IsoDate(day), IsoDate(day), NoId, 0)
MilestoneContent(id, seq, day) ==
    Content("ms", id, "planned", IsoDate(day), IsoDate(day), id, seq)
PlainMilestone == Content("ms", NoId, "", NoDate, NoDate, NoId, 0)
LockContent == Content("lock", NoId, "", NoDate, NoDate, NoId, 0)

\* ------------------------------------------------------ filesystem helpers
IsPrefix(a, b) == Len(a) <= Len(b) /\ SubSeq(b, 1, Len(a)) = a
Under(root, p) == IsPrefix(root, p) /\ Len(p) > Len(root)
Parent(p) == SubSeq(p, 1, Len(p) - 1)
Name(p) == p[Len(p)]
RelativeTo(p, root) == SubSeq(p, Len(root) + 1, Len(p))
Prefixes(p) == {SubSeq(p, 1, i) : i \in 0..Len(p)}

FileExists(f, p) == p \in DOMAIN f
PathExists(f, d, p) == p \in d \/ p \in DOMAIN f

\* Path.mkdir(parents=True, exist_ok=True)
MkdirP(d, p) == d \cup Prefixes(p)

\* os.replace(src, dst) of a file or of a whole directory subtree
Moved(p, src, dst) == IF IsPrefix(src, p) THEN dst \o RelativeTo(p, src) ELSE p
\* fault: the source is copied, not moved
RenameFiles_copy(f, src, dst) ==
    [q \in DOMAIN f \cup {Moved(x, src, dst) : x \in DOMAIN f} |->
        IF q \in DOMAIN f THEN f[q]
        ELSE f[CHOOSE x \in DOMAIN f : Moved(x, src, dst) = q]]
RenameFiles(f, src, dst) ==
    [q \in {Moved(p, src, dst) : p \in DOMAIN f} |->
        f[CHOOSE p \in DOMAIN f : Moved(p, src, dst) = q]]
RenameDirs(d, src, dst) == {Moved(p, src, dst) : p \in d}
\* os.replace raises OSError by itself: a directory cannot replace a file or
\* a directory that is not empty, a file cannot replace a directory
ReplaceRaises(f, d, src, dst) ==
    IF src \in d
    THEN dst \in DOMAIN f \/ (dst \in d /\ \E q \in DOMAIN f \cup d : Under(dst, q))
    ELSE dst \in d

WriteFile(f, p, c) == [q \in DOMAIN f \cup {p} |-> IF q = p THEN c ELSE f[q]]
RemoveFile(f, p) == [q \in DOMAIN f \ {p} |-> f[q]]

\* root.rglob(pattern), files only
Rglob(f, root, Match(_)) == {p \in DOMAIN f : Under(root, p) /\ Match(Name(p))}
\* root.glob(pattern), files only
Glob(f, root, Match(_)) == {p \in DOMAIN f : Parent(p) = root /\ Len(p) > 0 /\ Match(Name(p))}

\* ------------------------------------------------------ creator.py scans
_iter_execplan_files_any(f) == Rglob(f, <<>>, IsEpMd)
_iter_execplan_files(f) ==
    {p \in Rglob(f, <<>>, IsEpMd) : ~is_execplan_milestone_path(p)}

_iter_execplan_files_within_plan_root(f, plan_root) ==
    {p \in Rglob(f, plan_root, IsEpMd) : ~is_execplan_milestone_path(p)}

RECURSIVE MaxOf(_)
MaxOf(S) == IF S = {} THEN 0
            ELSE LET x == CHOOSE x \in S : TRUE
                     r == MaxOf(S \ {x})
                 IN IF x > r THEN x ELSE r

_next_sequence_for_date(f, date_yyyymmdd) ==
    MaxOf({parse_execplan_filename(Name(p)).sequence :
             p \in {q \in _iter_execplan_files(f) :
                      parse_execplan_filename(Name(q)).date = date_yyyymmdd}}) + 1

MatchesOf(f, execplan_id) ==
    {p \in _iter_execplan_files(f) : extract_execplan_id_from_filename(Name(p)) = execplan_id}

\* creator._extract_milestone_execplan_id: the filename id when the name
\* carries one, else the front matter's execplan_id (NoId when none).
creator_extract_milestone_execplan_id(f, p) ==
    IF parse_execplan_filename(Name(p)).ok
    THEN extract_execplan_id_from_filename(Name(p))
    ELSE f[p].id

\* fault: the foreign-milestone scan finds nothing
_iter_foreign_milestone_files_none(f, plan_root, execplan_id) == {}
_iter_foreign_milestone_files_within_plan_root(f, plan_root, execplan_id) ==
    {p \in Rglob(f, plan_root, IsMd) :
        LET candidate_id == creator_extract_milestone_execplan_id(f, p)
            rel == RelativeTo(p, plan_root)
        IN /\ candidate_id # NoId
           /\ candidate_id # execplan_id
           /\ \/ /\ Len(rel) >= 3
                 /\ Named(rel[1], MILESTONES_DIR)
                 /\ InActiveOrArchive(rel[2])
              \/ /\ Len(rel) >= 2
                 /\ InActiveOrArchive(rel[1])}

\* fault: the legacy milestones subtree is taken to hold only the plan's files
_iter_unexpected_entries_none(f, milestones_root, execplan_id) == {}
_iter_unexpected_entries_in_legacy_milestones_root(f, milestones_root, execplan_id) ==
    {p \in Rglob(f, milestones_root, IsMd) :
        LET candidate_id == creator_extract_milestone_execplan_id(f, p)
            rel == RelativeTo(p, milestones_root)
        IN ~(/\ Len(rel) >= 2
             /\ InActiveOrArchive(rel[1])
             /\ candidate_id = execplan_id)}

\* ---------------------------------------------------- milestones.py scans
parse_milestone_filename(c) ==
    IF c.k = "lms" THEN [ok |-> TRUE, id |-> Id(c.d, c.s), ms |-> c.m]
    ELSE IF c.k = "ms" THEN [ok |-> TRUE, id |-> NoId, ms |-> c.m]
    ELSE [ok |-> FALSE, id |-> NoId, ms |-> 0]

\* (execplan_id, parse_error) of _extract_milestone_execplan_id_with_error
_extract_milestone_execplan_id_with_error(f, p) ==
    [id |-> f[p].id, parse_error |-> f[p].id = NoId]

milestones_extract_milestone_execplan_id(f, p) ==
    IF parse_execplan_filename(Name(p)).ok
    THEN extract_execplan_id_from_filename(Name(p))
    ELSE _extract_milestone_execplan_id_with_error(f, p).id

\* fault: the owner of a candidate is not looked at
_is_milestone_owned_by_anyone(f, p, execplan_id) == parse_milestone_filename(Name(p)).ok
_is_milestone_owned_by_execplan(f, p, execplan_id) ==
    LET parsed == parse_milestone_filename(Name(p))
    IN IF ~parsed.ok THEN FALSE
       ELSE IF parsed.id # NoId THEN parsed.id = execplan_id
       ELSE milestones_extract_milestone_execplan_id(f, p) = execplan_id

\* one MilestoneFileScan per milestone file of the plan root
scan_plan_milestone_files(f, d, plan_root) ==
    LET milestones_root == plan_root \o <<Dir(MILESTONES_DIR)>>
    IN IF milestones_root \notin d THEN {}
       ELSE {[path |-> p,
              sequence |-> parse_milestone_filename(Name(p)).ms,
              location |-> IF Named(RelativeTo(p, milestones_root)[1], ACTIVE_DIR)
                           THEN "active" ELSE "archived",
              execplan_id |-> IF parse_milestone_filename(Name(p)).id # NoId
                              THEN parse_milestone_filename(Name(p)).id
                              ELSE _extract_milestone_execplan_id_with_error(f, p).id,
              parse_error |-> /\ parse_milestone_filename(Name(p)).id = NoId
                              /\ _extract_milestone_execplan_id_with_error(f, p).parse_error] :
             p \in {q \in Rglob(f, milestones_root, IsMd) :
                      /\ parse_milestone_filename(Name(q)).ok
                      /\ InActiveOrArchive(RelativeTo(q, milestones_root)[1])}}

list_invalid_active_milestone_files(f, d, plan_root) ==
    {x \in scan_plan_milestone_files(f, d, plan_root) :
        x.location = "active" /\ x.parse_error}

\* parse_error of _scan_active_milestone_front_matter
_scan_active_milestone_front_matter(f, p) ==
    [path |-> p,
     execplan_id |-> f[p].id,
     sequence |-> f[p].msseq,
     parse_error |-> \/ f[p].id = NoId
                     \/ f[p].msid = NoId
                     \/ f[p].msid # f[p].id]

scan_active_milestones_for_archive(f, d, plan_root, execplan_id) ==
    LET active_root == plan_root \o <<Dir(MILESTONES_DIR), Dir(ACTIVE_DIR)>>
        scanned == IF active_root \notin d THEN {}
                   ELSE {_scan_active_milestone_front_matter(f, p) :
                            p \in Rglob(f, active_root, IsMd)}
    IN [blocking_entries |->
            {x.path : x \in {y \in scanned :
                                y.parse_error \/ y.execplan_id # execplan_id}},
        active_milestones_for_execplan |->
            {x.path : x \in {y \in scanned :
                                ~y.parse_error /\ y.execplan_id = execplan_id}}]

\* fault: only the active milestones are counted
_next_milestone_sequence_active(f, d, plan_root, execplan_id) ==
    MaxOf({x.sequence : x \in {y \in scan_plan_milestone_files(f, d, plan_root) :
                                  y.location = "active"}}) + 1
_next_milestone_sequence(f, d, plan_root, execplan_id) ==
    MaxOf({x.sequence : x \in {y \in scan_plan_milestone_files(f, d, plan_root) :
                                  \/ y.execplan_id = execplan_id
                                  \/ y.location = "active" /\ y.parse_error}}) + 1

\* ------------------------------------------------------- registry.py
\* Per-file issues of _build_plan for a discovered plan file.
\* (a file with an error issue yields no RegistryPlan; a file of another kind
\* lacks the required keys.)
PlanErrors(f, p) ==
    IF f[p].k # "plan" THEN 1
    ELSE IF f[p].id # extract_execplan_id_from_filename(Name(p)) THEN 1
    ELSE 0

PlanWarnings(f, p) ==
    IF f[p].status = "archived" /\ ~is_execplan_archive_path(p) THEN 1
    ELSE IF is_execplan_archive_path(p) /\ f[p].status \notin {"archived", "done"} THEN 1
    ELSE 0

\* sorted(paths), lines 268-273: Path objects compare by their parts, the parts
\* as strings. ComponentNames lists the names of the model in string order;
\* a part's key starts with the class of its first character
\* ('.' < digits < 'E' < 'M' < lower case).
ComponentNames ==
    <<_LOCKS_DIRNAME, "a", "active", "archive", "b", "m", "milestones", "notes", "x">>
NameRank(name) == CHOOSE i \in 1..Len(ComponentNames) : ComponentNames[i] = name
SortKey(c) ==
    CASE c.k = "dir" -> <<IF c.n = _LOCKS_DIRNAME THEN 0 ELSE 4, NameRank(c.n), 0, 0, 0>>
      [] c.k = "num" -> <<1, c.d, 0, 0, 0>>
      [] c.k = "lock" -> <<2, c.d, c.s, 0, 0>>
      [] c.k = "lms" -> <<2, c.d, c.s, 1, c.m>>
      [] c.k = "leaf" -> <<2, c.d, c.s, IF c.m > 0 THEN 1 ELSE 2, NameRank(c.n)>>
      [] c.k = "plan" -> <<2, c.d, c.s, 2, NameRank(c.n)>>
      [] c.k = "ms" -> <<3, c.m, NameRank(c.n), 0, 0>>
      [] OTHER -> <<4, NameRank(c.n), 1, 0, 0>>
KeyBefore(a, b) ==
    \E i \in 1..Len(a) : a[i] < b[i] /\ \A j \in 1..(i - 1) : a[j] = b[j]
PathBefore(a, b) ==
    \/ Under(a, b)
    \/ \E i \in 1..Len(a) :
          /\ i <= Len(b)
          /\ SubSeq(a, 1, i - 1) = SubSeq(b, 1, i - 1)
          /\ KeyBefore(SortKey(a[i]), SortKey(b[i]))
RECURSIVE SortedPaths(_)
SortedPaths(S) ==
    IF S = {} THEN <<>>
    ELSE LET first == CHOOSE x \in S : \A y \in S \ {x} : ~PathBefore(y, x)
         IN <<first>> \o SortedPaths(S \ {first})

\* str(item).strip() of a list entry matches EXECPLAN_ID_RE (NoId: no entry)
IsExecplanId(e) == e.d \in 0..99999999 /\ e.s \in 0..999

\* fault: a repeated id is reported once
DuplicateIssues_once(f, plans) ==
    {[kind |-> "duplicate", id |-> f[plans[i]].id, existing |-> plans[j],
      path |-> plans[i], relation |-> ""] :
        <<j, i>> \in {x \in (1..Len(plans)) \X (1..Len(plans)) :
                        /\ x[1] < x[2]
                        /\ f[plans[x[1]]].id = f[plans[x[2]]].id
                        /\ \A k \in 1..(x[2] - 1) :
                              f[plans[k]].id = f[plans[x[2]]].id => k = x[1]}}
\* lines 497-510: by_id holds the last plan seen for an id; a later plan with
\* that id is reported together with it.
DuplicateIssues(f, plans) ==
    {[kind |-> "duplicate", id |-> f[plans[i]].id, existing |-> plans[j],
      path |-> plans[i], relation |-> ""] :
        <<j, i>> \in {x \in (1..Len(plans)) \X (1..Len(plans)) :
                        /\ x[1] < x[2]
                        /\ f[plans[x[1]]].id = f[plans[x[2]]].id
                        /\ \A k \in (x[1] + 1)..(x[2] - 1) :
                              f[plans[k]].id # f[plans[x[2]]].id}}

RelationEntries(f, p) ==
    {x \in {[relation |-> "depends_on", id |-> f[p].dep],
             [relation |-> "supersedes", id |-> f[p].sup]} : x.id # NoId}
\* fault: an entry is resolved against the file names of the tree
RelationIssues_by_filename(f, parsed) ==
    {[kind |-> IF IsExecplanId(x[2].id) THEN "unknown" ELSE "invalid",
      id |-> x[2].id, existing |-> <<>>, path |-> x[1], relation |-> x[2].relation] :
        x \in {y \in parsed \X UNION {RelationEntries(f, p) : p \in parsed} :
                 /\ y[2] \in RelationEntries(f, y[1])
                 /\ \/ ~IsExecplanId(y[2].id)
                    \/ y[2].id \notin {extract_execplan_id_from_filename(Name(q)) :
                                          q \in _iter_execplan_files(f)}}}
\* lines 512-531: an entry that is no id, or the id of no parsed plan
RelationIssues(f, parsed) ==
    {[kind |-> IF IsExecplanId(x[2].id) THEN "unknown" ELSE "invalid",
      id |-> x[2].id, existing |-> <<>>, path |-> x[1], relation |-> x[2].relation] :
        x \in {y \in parsed \X UNION {RelationEntries(f, p) : p \in parsed} :
                 /\ y[2] \in RelationEntries(f, y[1])
                 /\ \/ ~IsExecplanId(y[2].id)
                    \/ y[2].id \notin {f[q].id : q \in parsed}}}

collect_execplan_registry(f) ==
    LET discovered == _iter_execplan_files(f)
        parsed == {p \in discovered : PlanErrors(f, p) = 0}
        issues == DuplicateIssues(f, SortedPaths(parsed)) \cup RelationIssues(f, parsed)
    IN [plans |-> {[id |-> f[p].id, path |-> p, status |-> f[p].status,
                    updated |-> f[p].updated, dep |-> f[p].dep,
                    sup |-> f[p].sup] : p \in parsed},
        issues |-> issues,
        error_count |-> Cardinality(discovered \ parsed) + Cardinality(issues),
        warning_count |-> Cardinality({p \in parsed : PlanWarnings(f, p) > 0})]

NoSnapshot == [plans |-> {}, issues |-> {}, error_count |-> 0, warning_count |-> 0]

\* the registry file: absent, or holding the plans last written
NoRegistry == [present |-> FALSE, plans |-> {}]
RegistryFile(plans) == [present |-> TRUE, plans |-> plans]

\* build_execplan_registry lines 711-714: the write policy
\* fault: fail_on_warn is ignored
ShouldWrite_errors_only(result, fail_on_warn) == result.error_count = 0
ShouldWrite(result, fail_on_warn) ==
    /\ result.error_count = 0
    /\ ~(fail_on_warn /\ result.warning_count > 0)

\* ------------------------------------------------------- process locals
NoFiles == [q \in {} |-> LockContent]
IdleLoc ==
    [op |-> "none", id |-> NoId, slug |-> "", day |-> 0, upd |-> FALSE, seq |-> 0,
     src |-> <<>>, root |-> <<>>, dst |-> <<>>, legacy |-> FALSE,
     moves |-> <<>>, undos |-> <<>>, out |-> "none", err |-> "", named |-> {},
     preFiles |-> NoFiles, preDirs |-> {}, snap |-> NoSnapshot, wrote |-> FALSE,
     fow |-> FALSE, preRegistry |-> NoRegistry, made |-> {}]

Call(op, id, slug, day, upd, seq) ==
    [IdleLoc EXCEPT !.op = op, !.id = id, !.slug = slug, !.day = day, !.upd = upd,
                    !.seq = seq,
                    \* the tree at the call, kept for one-call-at-a-time runs
                    !.preFiles = IF concurrent THEN NoFiles ELSE files,
                    !.preDirs = IF concurrent THEN {} ELSE dirs,
                    !.preRegistry = IF concurrent THEN NoRegistry ELSE registry]

CanStart(p) ==
    /\ pc[p] = "idle"
    /\ opsLeft > 0
    \* Processes keep nothing between calls, so a call goes to MainProc when
    \* it is free and to another process only while MainProc is busy.
    /\ IF concurrent THEN p = MainProc \/ pc[MainProc] # "idle"
       ELSE p = MainProc /\ \A q \in Procs : pc[q] = "idle"

\* the call ends: it returns (out = "ok") or raises (out = "err", "fatal")
Finish(p, l, out, err) ==
    /\ pc' = [pc EXCEPT ![p] = "done"]
    /\ loc' = [loc EXCEPT ![p] = [l EXCEPT !.out = out, !.err = err]]

\* leave the lock-held section with the outcome decided
ToUnlock(p, l, out, err) ==
    /\ pc' = [pc EXCEPT ![p] = "unlock"]
    /\ loc' = [loc EXCEPT ![p] = [l EXCEPT !.out = out, !.err = err]]

Goto(p, l, where) ==
    /\ pc' = [pc EXCEPT ![p] = where]
    /\ loc' = [loc EXCEPT ![p] = l]

Return(p) ==
    /\ pc[p] = "done"
    /\ pc' = [pc EXCEPT ![p] = "idle"]
    /\ loc' = [loc EXCEPT ![p] = IdleLoc]
    /\ UNCHANGED <<files, dirs, registry, lockHolder, opsLeft, faultsLeft,
                   created, allocated, concurrent, extLeft, componentVars>>

\* ------------------------------------------------------------- locks.py
LocksDir == <<Dir(_LOCKS_DIRNAME)>>
get_execplan_lock_path(execplan_id) == LocksDir \o <<LockFile(execplan_id)>>

\* get_execplan_lock_path, then file_lock up to the open of the lock file
OpenLock(p, l) ==
    IF <<>> \notin dirs
    THEN /\ Finish(p, l, "err", "execplans_dir_not_found")
         /\ UNCHANGED <<files, dirs>>
    ELSE /\ dirs' = MkdirP(dirs, LocksDir)
         /\ files' = IF FileExists(files, get_execplan_lock_path(l.id)) THEN files
                     ELSE WriteFile(files, get_execplan_lock_path(l.id), LockContent)
         /\ Goto(p, l, "lock")

\* fault: the flock never blocks
LockIsFree_always(execplan_id) == TRUE
\* fault: one lock file for every ExecPlan id
LockIsFree_shared(execplan_id) == \A i \in DOMAIN lockHolder : lockHolder[i] = NoProc
LockIsFree(execplan_id) == lockHolder[execplan_id] = NoProc

\* fault: the with statement is entered without taking the flock
file_lock_acquire_nolock(p) ==
    /\ pc[p] = "lock"
    /\ pc' = [pc EXCEPT ![p] = CASE loc[p].op = "archive_execplan" -> "a_check"
                                 [] loc[p].op = "create_execplan_milestone" -> "m_check"
                                 [] OTHER -> "ma_move"]
    /\ UNCHANGED <<files, dirs, registry, lockHolder, loc, opsLeft, faultsLeft, created,
                   allocated, concurrent, extLeft, componentVars>>

\* fcntl.flock(LOCK_EX): blocks until no other open file description holds it
file_lock_acquire(p) ==
    /\ pc[p] = "lock"
    /\ LockIsFree(loc[p].id)
    /\ lockHolder' = [lockHolder EXCEPT ![loc[p].id] = p]
    /\ pc' = [pc EXCEPT ![p] = CASE loc[p].op = "archive_execplan" -> "a_check"
                                 [] loc[p].op = "create_execplan_milestone" -> "m_check"
                                 [] OTHER -> "ma_move"]
    /\ UNCHANGED <<files, dirs, registry, loc, opsLeft, faultsLeft, created,
                   allocated, concurrent, extLeft, componentVars>>

\* fault: the lock is released on the success path only
Released_on_success(p) ==
    IF loc[p].out = "ok" THEN [lockHolder EXCEPT ![loc[p].id] = NoProc] ELSE lockHolder
Released(p) == [lockHolder EXCEPT ![loc[p].id] = NoProc]

\* fcntl.flock(LOCK_UN) in the finally of file_lock; archive_execplan goes on
\* to the registry rebuild outside the lock.
file_lock_release(p) ==
    /\ pc[p] = "unlock"
    /\ lockHolder' = Released(p)
    /\ IF loc[p].out = "ok" /\ loc[p].upd
       THEN Goto(p, loc[p], "r_collect")
       ELSE Finish(p, loc[p], loc[p].out, loc[p].err)
    /\ UNCHANGED <<files, dirs, registry, opsLeft, faultsLeft, created, allocated,
                   concurrent, extLeft, componentVars>>

\* ------------------------------------------------------ fault injection
\* An I/O call (os.replace, the atomic rewrite, open, the registry write)
\* raises OSError instead of taking effect.
InjectFault == faultsLeft > 0 /\ faultsLeft' = faultsLeft - 1
NoFault == faultsLeft' = faultsLeft
\* the call fails: by an injected I/O error, or by itself
ReplaceFails(f, d, src, dst) ==
    \/ InjectFault
    \/ NoFault /\ ReplaceRaises(f, d, src, dst)

\* ------------------------------------------- creator.py: create_execplan
\* lines 288-320: validation of the arguments, mkdir of the execplans directory
\* (made: the directories and files this call has created so far)
CreateValidate(p, slug, day, upd) ==
    /\ CanStart(p)
    /\ opsLeft' = opsLeft - 1
    /\ LET l == Call("create_execplan", NoId, slug, day, upd, 0)
           plan_root == <<Dir(EXECPLAN_ACTIVE_DIR), Dir(slug)>>
       IN IF slug \in RESERVED_EXECPLAN_ROOT_SLUGS \cup RESERVED_ACTIVE_PLAN_SLUGS
          THEN /\ Finish(p, l, "err", "reserved_slug")
               /\ dirs' = dirs
          ELSE /\ dirs' = MkdirP(dirs, <<>>)
               /\ Goto(p, [l EXCEPT !.root = plan_root,
                                    !.made = MkdirP(dirs, <<>>) \ dirs], "c_collision")
    /\ UNCHANGED <<files, registry, lockHolder, faultsLeft, created, allocated,
                   concurrent, extLeft, componentVars>>

\* lines 321-334: the slug directory already holds a plan file
CreateCollision(p) ==
    /\ pc[p] = "c_collision"
    /\ LET existing_plan_files ==
               IF loc[p].root \in dirs
               THEN _iter_execplan_files_within_plan_root(files, loc[p].root)
               ELSE {}
       IN IF existing_plan_files # {}
          THEN Finish(p, [loc[p] EXCEPT !.named = existing_plan_files],
                      "err", "slug_collision")
          ELSE Goto(p, loc[p], "c_sequence")
    /\ UNCHANGED <<files, dirs, registry, lockHolder, opsLeft, faultsLeft, created,
                   allocated, concurrent, extLeft, componentVars>>

\* lines 336-341: sequence allocation by scan, overflow check, plan id
CreateSequence(p) ==
    /\ pc[p] = "c_sequence"
    /\ LET sequence == _next_sequence_for_date(files, loc[p].day)
           plan_id == Id(loc[p].day, sequence)
       IN IF sequence > MaxPlanSequence
          THEN Finish(p, loc[p], "err", "sequence_overflow")
          ELSE Goto(p, [loc[p] EXCEPT !.seq = sequence, !.id = plan_id,
                                      !.src = loc[p].root \o
                                              <<PlanFile(plan_id, loc[p].slug)>>],
                    "c_write")
    /\ UNCHANGED <<files, dirs, registry, lockHolder, opsLeft, faultsLeft, created,
                   allocated, concurrent, extLeft, componentVars>>

\* lines 342-359: mkdir of the plan root, then open(plan_path, "x") and write
CreateWrite(p) ==
    /\ pc[p] = "c_write"
    /\ dirs' = MkdirP(dirs, loc[p].root)
    /\ LET l == [loc[p] EXCEPT !.made = @ \cup (MkdirP(dirs, loc[p].root) \ dirs)]
       IN \/ /\ FileExists(files, l.src)
             /\ NoFault
             /\ Finish(p, l, "err", "file_exists")
             /\ UNCHANGED <<files, created>>
          \/ /\ ~FileExists(files, l.src)
             /\ InjectFault
             /\ Finish(p, l, "err", "write_failed")
             /\ UNCHANGED <<files, created>>
          \/ /\ ~FileExists(files, l.src)
             /\ NoFault
             /\ files' = WriteFile(files, l.src, PlanContent(l.id, l.day))
             /\ created' = created \cup {l.id}
             /\ IF l.upd
                THEN Goto(p, [l EXCEPT !.out = "ok", !.made = @ \cup {l.src}],
                          "r_collect")
                ELSE Finish(p, [l EXCEPT !.made = @ \cup {l.src}], "ok", "")
    /\ UNCHANGED <<registry, lockHolder, opsLeft, allocated, concurrent, extLeft, componentVars>>

\* ------------------------------- registry.py: build_execplan_registry
RegistryCollect(p) ==
    /\ pc[p] = "r_collect"
    /\ Goto(p, [loc[p] EXCEPT !.snap = collect_execplan_registry(files)], "r_write")
    /\ UNCHANGED <<files, dirs, registry, lockHolder, opsLeft, faultsLeft, created,
                   allocated, concurrent, extLeft, componentVars>>

RegistryWrite(p) ==
    /\ pc[p] = "r_write"
    /\ \/ /\ ~ShouldWrite(loc[p].snap, loc[p].fow)
          /\ NoFault
          /\ Finish(p, loc[p], "ok", "")
          /\ UNCHANGED registry
       \/ /\ ShouldWrite(loc[p].snap, loc[p].fow)
          /\ InjectFault
          /\ Finish(p, loc[p], "err", "registry_write_failed")
          /\ UNCHANGED registry
       \/ /\ ShouldWrite(loc[p].snap, loc[p].fow)
          /\ NoFault
          /\ registry' = RegistryFile(loc[p].snap.plans)
          /\ Finish(p, [loc[p] EXCEPT !.wrote = TRUE], "ok", "")
    /\ UNCHANGED <<files, dirs, lockHolder, opsLeft, created, allocated, concurrent, extLeft, componentVars>>

\* a direct call of build_execplan_registry; collect_execplan_registry raises
\* FileNotFoundError (lines 465-466) when the execplans directory is missing
RegistryBuildOpen(p, fail_on_warn) ==
    /\ CanStart(p)
    /\ opsLeft' = opsLeft - 1
    /\ LET l == [Call("build_execplan_registry", NoId, "", 0, TRUE, 0)
                    EXCEPT !.fow = fail_on_warn]
       IN IF <<>> \notin dirs
          THEN Finish(p, l, "err", "execplans_dir_missing")
          ELSE Goto(p, l, "r_collect")
    /\ UNCHANGED <<files, dirs, registry, lockHolder, faultsLeft, created, allocated,
                   concurrent, extLeft, componentVars>>

\* ------------------------------------------ creator.py: archive_execplan
ArchiveParent(day) ==
    <<Dir(EXECPLAN_ARCHIVE_DIR), NumDir(YearOf(day), 4), NumDir(MonthOf(day), 2),
      NumDir(DayOf(day), 2)>>

Reject(err, named) ==
    [err |-> err, named |-> named, src |-> <<>>, root |-> <<>>, dst |-> <<>>,
     legacy |-> FALSE]
Accept(src, root, dst, legacy) ==
    [err |-> "", named |-> {}, src |-> src, root |-> root, dst |-> dst,
     legacy |-> legacy]

\* fault: the already-archived check is missing
AlreadyArchived_never(source_plan_path) == FALSE

\* line 396: the plan is already archived
AlreadyArchived(source_plan_path) == is_execplan_archive_path(source_plan_path)

\* lines 395-493: every check archive_execplan makes before its first change
ArchivePrecheck(f, d, execplan_id, day) ==
    LET matches == MatchesOf(f, execplan_id)
    IN IF matches = {} THEN Reject("not_found", {})
       ELSE IF Cardinality(matches) > 1 THEN Reject("multiple_files", matches)
       ELSE
       LET source_plan_path == CHOOSE q \in matches : TRUE
           layout == get_execplan_plan_root(source_plan_path)
       IN IF AlreadyArchived(source_plan_path) THEN Reject("already_archived", {})
          ELSE IF ~layout.ok THEN Reject("unrecognized_layout", {})
          ELSE
          LET source_plan_root == layout.plan_root
              legacy_active_root ==
                  /\ source_plan_root = <<Dir(EXECPLAN_ACTIVE_DIR)>>
                  /\ Parent(source_plan_path) = source_plan_root
              top_level_plan_files ==
                  {q \in Glob(f, source_plan_root, IsEpMd) :
                      ~is_execplan_milestone_path(q)}
              files_in_plan_root ==
                  _iter_execplan_files_within_plan_root(f, source_plan_root)
              foreign_milestones ==
                  _iter_foreign_milestone_files_within_plan_root(
                      f, source_plan_root, execplan_id)
              scan == scan_active_milestones_for_archive(
                          f, d, source_plan_root, execplan_id)
              archived_plan_root ==
                  ArchiveParent(day) \o <<LeafDir(execplan_id, Name(source_plan_root))>>
              legacy_milestones_root == source_plan_root \o <<Dir(MILESTONES_DIR)>>
              unexpected_entries ==
                  IF legacy_milestones_root \in d
                  THEN _iter_unexpected_entries_in_legacy_milestones_root(
                           f, legacy_milestones_root, execplan_id)
                  ELSE {}
          IN IF legacy_active_root /\ top_level_plan_files # {source_plan_path}
             THEN Reject("multiple_top_level_plans", top_level_plan_files)
             ELSE IF ~legacy_active_root /\ files_in_plan_root # {source_plan_path}
             THEN Reject("multiple_plans_in_root", files_in_plan_root)
             ELSE IF ~legacy_active_root /\ foreign_milestones # {}
             THEN Reject("foreign_milestones", foreign_milestones)
             ELSE IF scan.blocking_entries # {}
             THEN Reject("invalid_active_milestones", scan.blocking_entries)
             ELSE IF scan.active_milestones_for_execplan # {}
             THEN Reject("active_milestones", scan.active_milestones_for_execplan)
             ELSE IF IsPrefix(source_plan_root, archived_plan_root)
             THEN Reject("destination_inside_source", {})
             ELSE IF legacy_active_root /\ unexpected_entries # {}
             THEN Reject("mixed_ownership", unexpected_entries)
             ELSE Accept(source_plan_path, source_plan_root, archived_plan_root,
                         legacy_active_root)

\* line 394 (entry of the with statement): lock path, lock file
ArchiveOpen(p, execplan_id, day, upd) ==
    /\ CanStart(p)
    /\ opsLeft' = opsLeft - 1
    /\ OpenLock(p, Call("archive_execplan", execplan_id, "", day, upd, 0))
    /\ UNCHANGED <<registry, lockHolder, faultsLeft, created, allocated, concurrent, extLeft, componentVars>>

ArchiveCheck(p) ==
    /\ pc[p] = "a_check"
    /\ LET c == ArchivePrecheck(files, dirs, loc[p].id, loc[p].day)
       IN IF c.err # ""
          THEN ToUnlock(p, [loc[p] EXCEPT !.named = c.named], "err", c.err)
          ELSE Goto(p, [loc[p] EXCEPT !.src = c.src, !.root = c.root, !.dst = c.dst,
                                      !.legacy = c.legacy], "a_mkdir")
    /\ UNCHANGED <<files, dirs, registry, lockHolder, opsLeft, faultsLeft, created,
                   allocated, concurrent, extLeft, componentVars>>

\* lines 495-498 and 538-540: mkdir of the date directories, destination check
ArchiveMkdir(p) ==
    /\ pc[p] = "a_mkdir"
    /\ IF PathExists(files, dirs, loc[p].dst)
       THEN /\ dirs' = MkdirP(dirs, Parent(loc[p].dst))
            /\ ToUnlock(p, loc[p], "err", "destination_exists")
       ELSE IF loc[p].legacy
       THEN /\ dirs' = MkdirP(dirs, loc[p].dst)
            /\ Goto(p, loc[p], "a_move_plan")
       ELSE /\ dirs' = MkdirP(dirs, Parent(loc[p].dst))
            /\ Goto(p, loc[p], "a_move_root")
    /\ UNCHANGED <<files, registry, lockHolder, opsLeft, faultsLeft, created,
                   allocated, concurrent, extLeft, componentVars>>

Move(from, to) == [from |-> from, to |-> to]

\* archived_plan_root.rmdir() inside try/except OSError: only an empty directory goes
RmdirIfEmpty(f, d, path) ==
    IF \E q \in (DOMAIN f) \cup d : Under(path, q) THEN d ELSE d \ {path}

\* lines 546 and 500: where the plan file lies once moved
ArchivedPlanPath(l) ==
    IF l.legacy THEN l.dst \o <<Name(l.src)>> ELSE l.dst \o RelativeTo(l.src, l.root)

\* lines 542-545 (current layout): os.replace(source_plan_root, archived_plan_root)
ArchiveMoveRoot(p) ==
    /\ pc[p] = "a_move_root"
    /\ \/ /\ NoFault
          /\ ~ReplaceRaises(files, dirs, loc[p].root, loc[p].dst)
          /\ files' = RenameFiles(files, loc[p].root, loc[p].dst)
          /\ dirs' = RenameDirs(dirs, loc[p].root, loc[p].dst)
          /\ Goto(p, [loc[p] EXCEPT !.moves = <<Move(loc[p].root, loc[p].dst)>>],
                  "a_mark")
       \/ /\ ReplaceFails(files, dirs, loc[p].root, loc[p].dst)
          /\ ToUnlock(p, loc[p], "err", "move_failed")
          /\ UNCHANGED <<files, dirs>>
    /\ UNCHANGED <<registry, lockHolder, opsLeft, created, allocated, concurrent, extLeft, componentVars>>

\* lines 504-506 (legacy shared root): os.replace(source_plan_path, archived_plan_path)
ArchiveMovePlan(p) ==
    /\ pc[p] = "a_move_plan"
    /\ \/ /\ NoFault
          /\ ~ReplaceRaises(files, dirs, loc[p].src, ArchivedPlanPath(loc[p]))
          /\ files' = RenameFiles(files, loc[p].src, ArchivedPlanPath(loc[p]))
          /\ dirs' = dirs
          /\ Goto(p, [loc[p] EXCEPT !.moves =
                          <<Move(loc[p].src, ArchivedPlanPath(loc[p]))>>],
                  IF loc[p].root \o <<Dir(MILESTONES_DIR)>> \in dirs
                  THEN "a_move_milestones" ELSE "a_mark")
       \/ /\ ReplaceFails(files, dirs, loc[p].src, ArchivedPlanPath(loc[p]))
          /\ files' = files
          /\ dirs' = RmdirIfEmpty(files, dirs, loc[p].dst)
          /\ ToUnlock(p, loc[p], "err", "move_failed")
    /\ UNCHANGED <<registry, lockHolder, opsLeft, created, allocated, concurrent, extLeft, componentVars>>

\* lines 507-509: os.replace(legacy_milestones_root, archived_milestones_root)
ArchiveMoveMilestones(p) ==
    /\ pc[p] = "a_move_milestones"
    /\ LET from == loc[p].root \o <<Dir(MILESTONES_DIR)>>
           to == loc[p].dst \o <<Dir(MILESTONES_DIR)>>
       IN \/ /\ NoFault
             /\ ~ReplaceRaises(files, dirs, from, to)
             /\ files' = RenameFiles(files, from, to)
             /\ dirs' = RenameDirs(dirs, from, to)
             /\ Goto(p, [loc[p] EXCEPT !.moves = Append(loc[p].moves, Move(from, to))],
                     "a_mark")
          \/ /\ ReplaceFails(files, dirs, from, to)
             /\ Goto(p, [loc[p] EXCEPT !.err = "move_failed"], "a_rollback")
             /\ UNCHANGED <<files, dirs>>
    /\ UNCHANGED <<registry, lockHolder, opsLeft, created, allocated, concurrent, extLeft, componentVars>>

\* _mark_execplan_archived (lines 252-266): status and updated rewritten, the
\* rest of the front matter kept; written through a temp file and os.replace.
\* fault: the status is left as it was
_mark_execplan_archived_updated_only(f, plan_path, updated) ==
    WriteFile(f, plan_path, [f[plan_path] EXCEPT !.updated = updated])
\* fault: the updated date is left as it was
_mark_execplan_archived_status_only(f, plan_path, updated) ==
    WriteFile(f, plan_path, [f[plan_path] EXCEPT !.status = "archived"])
_mark_execplan_archived(f, plan_path, updated) ==
    WriteFile(f, plan_path, [f[plan_path] EXCEPT !.status = "archived",
                                                 !.updated = updated])

\* lines 511-514 and 547-550
ArchiveMark(p) ==
    /\ pc[p] = "a_mark"
    /\ \/ /\ NoFault
          /\ files' = _mark_execplan_archived(files, ArchivedPlanPath(loc[p]),
                                              IsoDate(loc[p].day))
          /\ ToUnlock(p, loc[p], "ok", "")
       \/ /\ InjectFault
          /\ Goto(p, [loc[p] EXCEPT !.err = "mark_failed"], "a_rollback")
          /\ UNCHANGED files
    /\ UNCHANGED <<dirs, registry, lockHolder, opsLeft, created, allocated, concurrent, extLeft, componentVars>>

\* fault: the moves are undone in the order they were made
NextUndo_forward(l) == l.moves[Len(l.undos) + 1]

\* The move the except block undoes next: milestones before the plan file
\* (lines 516-531), the plan root alone in the current layout (552-559).
NextUndo(l) == l.moves[Len(l.moves) - Len(l.undos)]

\* lines 515-536 and 551-560: one os.replace back per step, then the re-raise
ArchiveRollback(p) ==
    /\ pc[p] = "a_rollback"
    /\ LET l == loc[p]
           m == NextUndo(l)
           f2 == RenameFiles(files, m.to, m.from)
           d2 == RenameDirs(dirs, m.to, m.from)
           l2 == [l EXCEPT !.undos = Append(l.undos, m)]
       IN \/ /\ NoFault
             /\ ~ReplaceRaises(files, dirs, m.to, m.from)
             /\ files' = f2
             /\ IF Len(l2.undos) < Len(l2.moves)
                THEN /\ dirs' = d2
                     /\ Goto(p, l2, "a_rollback")
                ELSE /\ dirs' = IF l.legacy THEN RmdirIfEmpty(f2, d2, l.dst) ELSE d2
                     /\ ToUnlock(p, l2, "err", l.err)
          \/ /\ ReplaceFails(files, dirs, m.to, m.from)
             /\ ToUnlock(p, [l EXCEPT !.named = {m.to}], "fatal", "rollback_failed")
             /\ UNCHANGED <<files, dirs>>
    /\ UNCHANGED <<registry, lockHolder, opsLeft, created, allocated, concurrent, extLeft, componentVars>>

\* ------------------------- milestones.py: create_execplan_milestone
\* (parent plan path, plan root) of _resolve_parent_execplan, or the error
_resolve_parent_execplan(f, execplan_id) ==
    LET matches == MatchesOf(f, execplan_id)
    IN IF matches = {} THEN Reject("not_found", {})
       ELSE IF Cardinality(matches) > 1 THEN Reject("multiple_files", matches)
       ELSE LET plan_path == CHOOSE q \in matches : TRUE
                layout == get_execplan_plan_root(plan_path)
            IN IF ~layout.ok THEN Reject("unrecognized_layout", {})
               ELSE Accept(plan_path, layout.plan_root, <<>>, FALSE)

\* fault: an archived parent plan is accepted
_ensure_execplan_mutable_never(f, plan_path) == FALSE

\* TRUE when _ensure_execplan_mutable raises
_ensure_execplan_mutable(f, plan_path) ==
    \/ is_execplan_archive_path(plan_path)
    \/ f[plan_path].status = "archived"

_uses_legacy_shared_active_root(plan_path, plan_root) ==
    /\ plan_root = <<Dir(ACTIVE_DIR)>>
    /\ Parent(plan_path) = <<Dir(ACTIVE_DIR)>>

\* lines 503-516: argument validation, lock path, lock file
MilestoneCreateOpen(p, execplan_id) ==
    /\ CanStart(p)
    /\ opsLeft' = opsLeft - 1
    /\ OpenLock(p, Call("create_execplan_milestone", execplan_id, MsSlug, D1, FALSE, 0))
    /\ UNCHANGED <<registry, lockHolder, faultsLeft, created, allocated, concurrent, extLeft, componentVars>>

\* lines 517-545
MilestoneCreateCheck(p) ==
    /\ pc[p] = "m_check"
    /\ LET parent == _resolve_parent_execplan(files, loc[p].id)
           active_dir == parent.root \o <<Dir(MILESTONES_DIR), Dir(ACTIVE_DIR)>>
           d2 == MkdirP(dirs, active_dir)
           invalid == list_invalid_active_milestone_files(files, d2, parent.root)
       IN IF parent.err # ""
          THEN /\ dirs' = dirs
               /\ ToUnlock(p, [loc[p] EXCEPT !.named = parent.named], "err", parent.err)
          ELSE IF _ensure_execplan_mutable(files, parent.src)
          THEN /\ dirs' = dirs
               /\ ToUnlock(p, loc[p], "err", "execplan_archived")
          ELSE /\ dirs' = d2
               /\ IF invalid # {}
                  THEN ToUnlock(p, [loc[p] EXCEPT !.named = {x.path : x \in invalid}],
                                "err", "invalid_active_milestones")
                  ELSE Goto(p, [loc[p] EXCEPT
                                   !.src = parent.src, !.root = parent.root,
                                   !.legacy = _uses_legacy_shared_active_root(
                                                  parent.src, parent.root)],
                            "m_write")
    /\ UNCHANGED <<files, registry, lockHolder, opsLeft, faultsLeft, created,
                   allocated, concurrent, extLeft, componentVars>>

\* lines 546-584: the allocation loop.  Inside one step the tree does not
\* change, so each of the _MILESTONE_CREATE_RETRIES iterations computes the same
\* sequence and the same name: an occupied name fails every retry (line 586).
MilestoneCreateWrite(p) ==
    /\ pc[p] = "m_write"
    /\ LET l == loc[p]
           sequence == _next_milestone_sequence(files, dirs, l.root, l.id)
           filename == IF l.legacy THEN LegacyMsFile(l.id, sequence, l.slug)
                       ELSE MsFile(sequence, l.slug)
           milestone_path == l.root \o <<Dir(MILESTONES_DIR), Dir(ACTIVE_DIR), filename>>
       IN IF sequence > MaxMilestoneSequence
          THEN /\ ToUnlock(p, l, "err", "sequence_overflow")
               /\ UNCHANGED <<files, allocated>>
          ELSE IF FileExists(files, milestone_path)
          THEN /\ ToUnlock(p, l, "err", "file_exists")
               /\ UNCHANGED <<files, allocated>>
          ELSE /\ files' = WriteFile(files, milestone_path,
                                     MilestoneContent(l.id, sequence, l.day))
               /\ allocated' = [allocated EXCEPT ![l.id] = Append(@, sequence)]
               /\ ToUnlock(p, [l EXCEPT !.seq = sequence, !.dst = milestone_path],
                           "ok", "")
    /\ UNCHANGED <<dirs, registry, lockHolder, opsLeft, faultsLeft, created, concurrent, extLeft, componentVars>>

\* ------------------------ milestones.py: archive_execplan_milestone
\* lines 644-649: sequence range, lock path, lock file
MilestoneArchiveOpen(p, execplan_id, sequence) ==
    /\ CanStart(p)
    /\ opsLeft' = opsLeft - 1
    /\ LET l == Call("archive_execplan_milestone", execplan_id, "", 0, FALSE, sequence)
       IN IF sequence < 1 \/ sequence > MaxMilestoneSequence
          THEN /\ Finish(p, l, "err", "bad_sequence")
               /\ UNCHANGED <<files, dirs>>
          ELSE OpenLock(p, l)
    /\ UNCHANGED <<registry, lockHolder, faultsLeft, created, allocated, concurrent, extLeft, componentVars>>

\* lines 650-689
MilestoneArchiveMove(p) ==
    /\ pc[p] = "ma_move"
    /\ LET l == loc[p]
           parent == _resolve_parent_execplan(files, l.id)
           active_dir == parent.root \o <<Dir(MILESTONES_DIR), Dir(ACTIVE_DIR)>>
           candidates ==
               {q \in Glob(files, active_dir, IsMd) :
                   /\ parse_milestone_filename(Name(q)).ok
                   /\ parse_milestone_filename(Name(q)).ms = l.seq
                   /\ _is_milestone_owned_by_execplan(files, q, l.id)}
           archive_dir == parent.root \o <<Dir(MILESTONES_DIR), Dir(ARCHIVE_DIR)>>
           source_path == CHOOSE q \in candidates : TRUE
           archived_path == archive_dir \o <<Name(source_path)>>
       IN IF parent.err # ""
          THEN /\ ToUnlock(p, [l EXCEPT !.named = parent.named], "err", parent.err)
               /\ NoFault
               /\ UNCHANGED <<files, dirs>>
          ELSE IF candidates = {}
          THEN /\ ToUnlock(p, l, "err", "milestone_not_found")
               /\ NoFault
               /\ UNCHANGED <<files, dirs>>
          ELSE IF Cardinality(candidates) > 1
          THEN /\ ToUnlock(p, [l EXCEPT !.named = candidates], "err", "multiple_milestones")
               /\ NoFault
               /\ UNCHANGED <<files, dirs>>
          ELSE /\ dirs' = MkdirP(dirs, archive_dir)
               /\ IF PathExists(files, dirs, archived_path)
                  THEN /\ ToUnlock(p, l, "err", "destination_exists")
                       /\ NoFault
                       /\ UNCHANGED files
                  ELSE \/ /\ NoFault
                          /\ files' = RenameFiles(files, source_path, archived_path)
                          /\ ToUnlock(p, [l EXCEPT !.src = source_path,
                                                   !.dst = archived_path], "ok", "")
                       \/ /\ InjectFault
                          /\ ToUnlock(p, l, "err", "move_failed")
                          /\ UNCHANGED files
    /\ UNCHANGED <<registry, lockHolder, opsLeft, created, allocated, concurrent, extLeft, componentVars>>

\* ------------------------------ locks.py: file_lock, byte-range backend
\* failed: attempts that raised OSError; entered: the with-body was reached;
\* unlocked: _release_windows_lock was called
NoWinLog == [failed |-> 0, entered |-> FALSE, unlocked |-> FALSE]

\* lines 75-78 and 41-45: open the lock file, enter _acquire_windows_lock
WinOpen(p) ==
    /\ winPc[p] = "idle"
    /\ winPc' = [winPc EXCEPT ![p] = "retry"]
    /\ winTries' = [winTries EXCEPT ![p] = 0]
    /\ winLog' = [winLog EXCEPT ![p] = NoWinLog]
    /\ UNCHANGED <<winHolder, engineVars, streamVars, pathVars>>

\* fault: the loop has no budget (while True)
WinAttempt_unbounded(p) ==
    /\ winPc[p] = "retry"
    /\ winTries' = [winTries EXCEPT ![p] = @ + 1]
    /\ IF winHolder = NoProc
       THEN /\ winHolder' = p
            /\ winPc' = [winPc EXCEPT ![p] = "locked"]
            /\ UNCHANGED winLog
       ELSE /\ winLog' = [winLog EXCEPT ![p].failed = @ + 1]
            /\ UNCHANGED <<winHolder, winPc>>
    /\ UNCHANGED <<engineVars, streamVars, pathVars>>

\* lines 47-53: one pass of the for loop; locking(LK_NBLCK) raises OSError
\* while another handle holds the byte
WinAttempt(p) ==
    /\ winPc[p] = "retry"
    /\ winTries[p] < _WINDOWS_LOCK_RETRIES
    /\ winTries' = [winTries EXCEPT ![p] = @ + 1]
    /\ IF winHolder = NoProc
       THEN /\ winHolder' = p
            /\ winPc' = [winPc EXCEPT ![p] = "locked"]
            /\ UNCHANGED winLog
       ELSE /\ winLog' = [winLog EXCEPT ![p].failed = @ + 1]
            /\ UNCHANGED <<winHolder, winPc>>
    /\ UNCHANGED <<engineVars, streamVars, pathVars>>

\* line 55: the loop is exhausted; TimeoutError leaves file_lock at line 78,
\* before the try
WinTimeout(p) ==
    /\ winPc[p] = "retry"
    /\ winTries[p] >= _WINDOWS_LOCK_RETRIES
    /\ winPc' = [winPc EXCEPT ![p] = "timeout"]
    /\ UNCHANGED <<winHolder, winTries, winLog, engineVars, streamVars, pathVars>>

\* lines 81-83: yield, the body of the with statement runs
WinEnter(p) ==
    /\ winPc[p] = "locked"
    /\ winPc' = [winPc EXCEPT ![p] = "body"]
    /\ winLog' = [winLog EXCEPT ![p].entered = TRUE]
    /\ UNCHANGED <<winHolder, winTries, engineVars, streamVars, pathVars>>

\* lines 84-88 and 58-69: finally, _release_windows_lock
WinRelease(p) ==
    /\ winPc[p] = "body"
    /\ winHolder' = IF winHolder = p THEN NoProc ELSE winHolder
    /\ winPc' = [winPc EXCEPT ![p] = "released"]
    /\ winLog' = [winLog EXCEPT ![p].unlocked = TRUE]
    /\ UNCHANGED <<winTries, engineVars, streamVars, pathVars>>

\* the caller goes on; a later file_lock call starts from scratch
WinReturn(p) ==
    /\ winPc[p] \in {"timeout", "released"}
    /\ winPc' = [winPc EXCEPT ![p] = "idle"]
    /\ winTries' = [winTries EXCEPT ![p] = 0]
    /\ winLog' = [winLog EXCEPT ![p] = NoWinLog]
    /\ UNCHANGED <<winHolder, engineVars, streamVars, pathVars>>

\* ------------------------------------------------- external changes
\* Files of the tree are plain Markdown that people and older tools edit
\* between calls: a hand-written or damaged milestone file appears in a plan's
\* milestones directory, or an archived milestone file is deleted.
\* ------------------------------------- async_stream.py: iterate_in_thread
ItemInputs == {1, 2}
\* what __next__ of the blocking iterator may raise after its items ("none":
\* StopIteration, the end of the iteration)
ExceptionInputs == {"none", "RuntimeError", "StopAsyncIteration"}
Raised(type, by) == [type |-> type, by |-> by]
Item(v) == [kind |-> "item", v |-> v, error |-> Raised("", "")]
_StreamError(error) == [kind |-> "error", v |-> 0, error |-> error]
_SENTINEL == [kind |-> "sentinel", v |-> 0, error |-> Raised("", "")]

\* fault: the exception leaves the async generator as it was raised
AsyncGeneratorRaise_same(error) == error
\* line 65, raise payload.error inside the async generator _aiter: a
\* StopIteration or StopAsyncIteration that would leave an async generator is
\* replaced by RuntimeError("async generator raised ...") (PEP 479, PEP 525).
AsyncGeneratorRaise(error) ==
    IF error.type \in {"StopIteration", "StopAsyncIteration"}
    THEN Raised("RuntimeError", "async generator")
    ELSE error

\* lines 37-38 and 57-68: the queue is made, the worker thread started, and
\* the consumer begins to iterate the returned async iterator
StreamOpen(items, raises) ==
    /\ runnerPc = "idle"
    /\ consumerPc = "idle"
    /\ source' = [items |-> items, raises |-> raises, next |-> 1]
    /\ runnerPc' = "iterating"
    /\ consumerPc' = "get"
    /\ UNCHANGED <<engineVars, winVars, pathVars, queue, received>>

\* lines 42-44: the iterator yields an item, queue.put(item) completes
RunnerPutItem ==
    /\ runnerPc = "iterating"
    /\ source.next <= Len(source.items)
    /\ queue' = Append(queue, Item(source.items[source.next]))
    /\ source' = [source EXCEPT !.next = @ + 1]
    /\ UNCHANGED <<engineVars, winVars, pathVars, received, runnerPc, consumerPc>>

\* line 42: the iterator is exhausted, the for loop ends
RunnerEndOfLoop ==
    /\ runnerPc = "iterating"
    /\ source.next > Len(source.items)
    /\ source.raises = "none"
    /\ runnerPc' = "finally"
    /\ UNCHANGED <<engineVars, winVars, pathVars, source, queue, received, consumerPc>>

\* lines 45-48: the iterator raises, queue.put(_StreamError(error=exc))
RunnerPutError ==
    /\ runnerPc = "iterating"
    /\ source.next > Len(source.items)
    /\ source.raises # "none"
    /\ queue' = Append(queue, _StreamError(Raised(source.raises, "iterator")))
    /\ runnerPc' = "finally"
    /\ UNCHANGED <<engineVars, winVars, pathVars, source, received, consumerPc>>

\* lines 51-53: finally, queue.put(_SENTINEL); the thread ends
RunnerPutSentinel ==
    /\ runnerPc = "finally"
    /\ queue' = Append(queue, _SENTINEL)
    /\ runnerPc' = "exited"
    /\ UNCHANGED <<engineVars, winVars, pathVars, source, received, consumerPc>>

\* lines 60-66: one pass of the loop of _aiter; received is what the consumer
\* of the async iterator has been handed, the end of the iteration included
ConsumerGet ==
    /\ consumerPc = "get"
    /\ queue # <<>>
    /\ queue' = Tail(queue)
    /\ LET payload == Head(queue)
       IN CASE payload = _SENTINEL ->
                 /\ received' = Append(received, [kind |-> "end", v |-> 0,
                                                   error |-> Raised("", "")])
                 /\ consumerPc' = "ended"
            [] payload.kind = "error" ->
                 /\ received' = Append(received,
                                       [kind |-> "raised", v |-> 0,
                                        error |-> AsyncGeneratorRaise(payload.error)])
                 /\ consumerPc' = "raised"
            [] OTHER ->
                 /\ received' = Append(received, payload)
                 /\ UNCHANGED consumerPc
    /\ UNCHANGED <<engineVars, winVars, pathVars, source, runnerPc>>

\* ------------------------------------------- paths.py as a pure function
\* The parts of the classified paths, relative to the execplans directory:
\* the reserved names, a slug, and at the places of the date a year, a month
\* or day, and two digits that are neither.
ProbeNames == {Dir(EXECPLAN_ACTIVE_DIR), Dir(EXECPLAN_ARCHIVE_DIR), Dir(MILESTONES_DIR), Dir("a")}
ProbeNumbers == {NumDir(2026, 4), NumDir(2, 2), NumDir(32, 2)}
ProbeParts(i) == IF i \in 2..4 THEN ProbeNames \cup ProbeNumbers ELSE ProbeNames
RECURSIVE PathsOfLen(_)
PathsOfLen(n) ==
    IF n = 0 THEN {<<>>}
    ELSE {Append(q, c) : q \in PathsOfLen(n - 1), c \in ProbeParts(n)}
\* the paths a caller starts from: up to the place below the date
ProbePaths == UNION {PathsOfLen(n) : n \in 0..(MaxProbeLen - 3)}

\* path / name: the caller steps down into an entry of the directory
Descend(c) ==
    /\ ~probeOut.asked
    /\ Len(probePath) < MaxProbeLen
    /\ c \in ProbeParts(Len(probePath) + 1)
    /\ probePath' = Append(probePath, c)
    /\ UNCHANGED <<engineVars, winVars, streamVars, probeOut>>

\* one call each of is_execplan_archive_path, is_execplan_milestone_path and
\* get_execplan_plan_root (which raises ValueError without a layout)
Classify ==
    /\ ~probeOut.asked
    /\ probeOut' = [asked |-> TRUE,
                    archived |-> is_execplan_archive_path(probePath),
                    milestone |-> is_execplan_milestone_path(probePath),
                    ok |-> get_execplan_plan_root(probePath).ok,
                    root |-> get_execplan_plan_root(probePath).plan_root]
    /\ UNCHANGED <<engineVars, winVars, streamVars, probePath>>

ForeignId == Id(D2, 7)
ExternalNames == {MsFile(1, "x"), OtherMd("notes"), LegacyMsFile(ForeignId, 1, "x")}
ExternalContents(owner) ==
    {PlainMilestone, MilestoneContent(ForeignId, 1, D1), MilestoneContent(owner, 1, D1)}

AllIdle == \A q \in Procs : pc[q] = "idle"

ExternalWriteMilestone ==
    /\ AllIdle
    /\ opsLeft > 0
    /\ extLeft > 0
    /\ opsLeft' = opsLeft - 1
    /\ extLeft' = extLeft - 1
    /\ \E plan \in _iter_execplan_files(files), where \in {ACTIVE_DIR, ARCHIVE_DIR},
          name \in ExternalNames :
          LET target == get_execplan_plan_root(plan).plan_root
                            \o <<Dir(MILESTONES_DIR), Dir(where), name>>
          IN /\ get_execplan_plan_root(plan).ok
             /\ ~is_execplan_archive_path(plan)
             /\ ~FileExists(files, target)
             /\ \E c \in ExternalContents(extract_execplan_id_from_filename(Name(plan))) :
                   files' = WriteFile(files, target, c)
             /\ dirs' = MkdirP(dirs, Parent(target))
    /\ UNCHANGED <<registry, lockHolder, pc, loc, faultsLeft, created, allocated,
                   concurrent, componentVars>>

ExternalDeleteArchivedMilestone ==
    /\ AllIdle
    /\ opsLeft > 0
    /\ extLeft > 0
    /\ opsLeft' = opsLeft - 1
    /\ extLeft' = extLeft - 1
    /\ \E q \in DOMAIN files :
          /\ is_execplan_milestone_path(q)
          /\ Named(q[Len(q) - 1], ARCHIVE_DIR)
          /\ files' = RemoveFile(files, q)
    /\ UNCHANGED <<dirs, registry, lockHolder, pc, loc, faultsLeft, created, allocated,
                   concurrent, componentVars>>

\* ------------------------------------------------------- initial trees
Tree(f, d, ms) == [files |-> f, dirs |-> d, allocated |-> ms]
FilesOf(S) == [q \in {x.path : x \in S} |-> (CHOOSE x \in S : x.path = q).content]
File(path, content) == [path |-> path, content |-> content]
DirsOf(f) == UNION {Prefixes(Parent(q)) : q \in DOMAIN f}
\* the tree of a set of files, with the directories that lead to them
TreeOf(S, ms) == Tree(FilesOf(S), DirsOf(FilesOf(S)), ms)

\* no execplans directory yet
EmptyTree == Tree(NoFiles, {}, <<>>)

\* lock files that earlier calls on these ids left under .locks/
LockFiles == {File(get_execplan_lock_path(i), LockContent) : i \in IdInputs}

\* what create_execplan, create_execplan_milestone and archive_execplan_milestone
\* leave behind: one plan in the current layout with its first milestone archived
ModernFiles ==
    FilesOf({File(<<Dir("active"), Dir("a"), PlanFile(Id(D1, 1), "a")>>,
                  PlanContent(Id(D1, 1), D1)),
             File(<<Dir("active"), Dir("a"), Dir("milestones"), Dir("archive"),
                    MsFile(1, MsSlug)>>,
                  MilestoneContent(Id(D1, 1), 1, D1))}
            \cup LockFiles)
ModernTree ==
    Tree(ModernFiles,
         DirsOf(ModernFiles)
           \cup {<<Dir("active"), Dir("a"), Dir("milestones"), Dir("active")>>},
         <<1>>)

\* the legacy shared active/ root: the plan file directly under active/, its
\* milestones under active/milestones/ with the plan id in their file names
LegacyFiles ==
    FilesOf({File(<<Dir("active"), PlanFile(Id(D1, 1), "active")>>,
                  PlanContent(Id(D1, 1), D1)),
             File(<<Dir("active"), Dir("milestones"), Dir("archive"),
                    LegacyMsFile(Id(D1, 1), 1, MsSlug)>>,
                  PlainMilestone)}
            \cup LockFiles)
LegacyTree == Tree(LegacyFiles, DirsOf(LegacyFiles), <<1>>)

InitTrees == {EmptyTree, ModernTree, LegacyTree}

\* one active plan, one archived plan of the same day, and a milestone file
\* named in the legacy way (EP-..._MS001_...) inside a milestone directory
ArchivedPlanContent(id, day, updated) ==
    Content("plan", id, "archived", IsoDate(day), IsoDate(updated), NoId, 0)
ArchivedTree ==
    TreeOf({File(<<Dir("active"), Dir("a"), PlanFile(Id(D1, 1), "a")>>,
                  PlanContent(Id(D1, 1), D1)),
             File(<<Dir("active"), Dir("a"), Dir("milestones"), Dir("active"),
                    LegacyMsFile(Id(D1, 50), 1, MsSlug)>>,
                  PlainMilestone),
             File(<<Dir("archive"), NumDir(2026, 4), NumDir(2, 2), NumDir(12, 2),
                    LeafDir(Id(D1, 2), Dir("b")), PlanFile(Id(D1, 2), "b")>>,
                  ArchivedPlanContent(Id(D1, 2), D1, D2))},
           <<>>)

\* the last sequence number of day D1 is taken
FullTree ==
    TreeOf({File(<<Dir("active"), Dir("b"), PlanFile(Id(D1, MaxPlanSequence), "b")>>,
                  PlanContent(Id(D1, MaxPlanSequence), D1))},
           <<>>)

CreateTrees == {EmptyTree, ModernTree, LegacyTree, ArchivedTree, FullTree}

\* two plans in one slug directory (test_archive_execplan_rejects_multi_execplan_plan_root)
SharedTree ==
    TreeOf({File(<<Dir("active"), Dir("a"), PlanFile(Id(D1, 1), "a")>>,
                  PlanContent(Id(D1, 1), D1)),
             File(<<Dir("active"), Dir("a"), PlanFile(Id(D1, 2), "a")>>,
                  PlanContent(Id(D1, 2), D1)),
             File(<<Dir("active"), Dir("a"), Dir("milestones"), Dir("archive"),
                    MsFile(1, MsSlug)>>,
                  MilestoneContent(Id(D1, 1), 1, D1))}
            \cup LockFiles,
           <<1>>)

\* a legacy plan directly under active/ whose milestones directory also holds
\* a milestone of the plan in active/b
LegacyMixedTree ==
    TreeOf({File(<<Dir("active"), PlanFile(Id(D1, 1), "active")>>,
                  PlanContent(Id(D1, 1), D1)),
             File(<<Dir("active"), Dir("milestones"), Dir("archive"),
                    LegacyMsFile(Id(D1, 1), 1, MsSlug)>>,
                  PlainMilestone),
             File(<<Dir("active"), Dir("milestones"), Dir("archive"),
                    LegacyMsFile(Id(D1, 2), 1, MsSlug)>>,
                  PlainMilestone),
             File(<<Dir("active"), Dir("b"), PlanFile(Id(D1, 2), "b")>>,
                  PlanContent(Id(D1, 2), D1))}
            \cup LockFiles,
           <<1>>)

\* two legacy plans directly under active/
LegacyPairTree ==
    TreeOf({File(<<Dir("active"), PlanFile(Id(D1, 1), "active")>>,
                  PlanContent(Id(D1, 1), D1)),
             File(<<Dir("active"), PlanFile(Id(D1, 2), "active")>>,
                  PlanContent(Id(D1, 2), D1)),
             File(<<Dir("active"), Dir("milestones"), Dir("archive"),
                    LegacyMsFile(Id(D1, 1), 1, MsSlug)>>,
                  PlainMilestone)}
            \cup LockFiles,
           <<1>>)

\* a plan under the archive path whose status is still planned: one warning
WarnTree ==
    TreeOf({File(<<Dir("archive"), NumDir(2026, 4), NumDir(2, 2), NumDir(12, 2),
                    LeafDir(Id(D1, 1), Dir("a")), PlanFile(Id(D1, 1), "a")>>,
                  PlanContent(Id(D1, 1), D1))},
           <<>>)

\* two plan files that carry the same id: a cross-document error
DuplicateTree ==
    TreeOf({File(<<Dir("active"), Dir("a"), PlanFile(Id(D1, 1), "a")>>,
                  PlanContent(Id(D1, 1), D1)),
             File(<<Dir("active"), Dir("b"), PlanFile(Id(D1, 1), "b")>>,
                  PlanContent(Id(D1, 1), D1))},
           <<>>)

\* depends_on entries that name no plan of the tree, or are no id at all
RelationTree ==
    TreeOf({File(<<Dir("active"), Dir("a"), PlanFile(Id(D1, 1), "a")>>,
                  [PlanContent(Id(D1, 1), D1) EXCEPT !.dep = Id(D1, 9)]),
             File(<<Dir("active"), Dir("b"), PlanFile(Id(D1, 2), "b")>>,
                  [PlanContent(Id(D1, 2), D1) EXCEPT !.dep = BadRef])},
           <<>>)

\* three plan files that carry one id, beside a plan of its own id
TripleTree ==
    TreeOf({File(<<Dir("active"), Dir("a"), PlanFile(Id(D1, 1), "a")>>,
                  PlanContent(Id(D1, 1), D1)),
             File(<<Dir("active"), Dir("b"), PlanFile(Id(D1, 1), "b")>>,
                  PlanContent(Id(D1, 1), D1)),
             File(<<Dir("active"), Dir("m"), PlanFile(Id(D1, 2), "m")>>,
                  PlanContent(Id(D1, 2), D1)),
             File(<<Dir("active"), Dir("x"), PlanFile(Id(D1, 1), "x")>>,
                  PlanContent(Id(D1, 1), D1))},
           <<>>)

\* a plan whose entries name a plan that parses and a plan file that fails
\* validation (front matter id differs from the file name), and a plan whose
\* entries are no id and the id of no file
UnresolvedTree ==
    TreeOf({File(<<Dir("active"), Dir("a"), PlanFile(Id(D1, 1), "a")>>,
                  [PlanContent(Id(D1, 1), D1) EXCEPT !.dep = Id(D1, 2),
                                                     !.sup = Id(D1, 3)]),
             File(<<Dir("active"), Dir("b"), PlanFile(Id(D1, 2), "b")>>,
                  PlanContent(Id(D1, 8), D1)),
             File(<<Dir("active"), Dir("m"), PlanFile(Id(D1, 3), "m")>>,
                  [PlanContent(Id(D1, 3), D1) EXCEPT !.dep = BadRef,
                                                     !.sup = Id(D1, 9)])},
           <<>>)

\* the plan of ModernTree with a given set of milestone files
MilestoneTree(S) ==
    TreeOf({File(<<Dir("active"), Dir("a"), PlanFile(Id(D1, 1), "a")>>,
                 PlanContent(Id(D1, 1), D1))}
             \cup {File(<<Dir("active"), Dir("a"), Dir("milestones"), Dir(x.where), x.name>>,
                        x.content) : x \in S}
             \cup LockFiles,
           <<>>)
MsAt(where, name, content) == [where |-> where, name |-> name, content |-> content]
\* one active milestone; two active files with sequence 1 of the plan; an
\* active file whose name is taken in milestones/archive; an active file of
\* the plan beside one of another plan with the same sequence
MilestoneTrees ==
    {ModernTree, LegacyTree,
     MilestoneTree({MsAt("active", MsFile(1, MsSlug), MilestoneContent(Id(D1, 1), 1, D1))}),
     MilestoneTree({MsAt("active", MsFile(1, MsSlug), MilestoneContent(Id(D1, 1), 1, D1)),
                    MsAt("active", MsFile(1, "x"), MilestoneContent(Id(D1, 1), 1, D1))}),
     MilestoneTree({MsAt("active", MsFile(1, MsSlug), MilestoneContent(Id(D1, 1), 1, D1)),
                    MsAt("archive", MsFile(1, MsSlug), MilestoneContent(Id(D1, 1), 1, D1))}),
     MilestoneTree({MsAt("active", MsFile(1, MsSlug), MilestoneContent(Id(D1, 1), 1, D1)),
                    MsAt("active", MsFile(1, "x"), MilestoneContent(ForeignId, 1, D1)),
                    MsAt("active", MsFile(2, "x"), MilestoneContent(Id(D1, 1), 2, D1))})}

RegistryTrees ==
    {EmptyTree, ModernTree, WarnTree, DuplicateTree, RelationTree, TripleTree,
     UnresolvedTree}

ArchiveTrees == {ModernTree, LegacyTree, SharedTree, LegacyMixedTree, LegacyPairTree}

\* the answers of is_execplan_archive_path, is_execplan_milestone_path and
\* get_execplan_plan_root (ok: it returned a root) before any was asked
NoProbeOut ==
    [asked |-> FALSE, archived |-> FALSE, milestone |-> FALSE, ok |-> FALSE,
     root |-> <<>>]

NoSource == [items |-> <<>>, raises |-> "none", next |-> 1]

\* no file_lock call on the byte-range backend is running
WinIdle ==
    /\ winHolder = NoProc
    /\ winPc = [p \in Procs |-> "idle"]
    /\ winTries = [p \in Procs |-> 0]
    /\ winLog = [p \in Procs |-> NoWinLog]
\* no stream is being adapted
StreamIdle ==
    /\ source = NoSource
    /\ queue = <<>>
    /\ received = <<>>
    /\ runnerPc = "idle"
    /\ consumerPc = "idle"
\* no path is being classified
PathIdle ==
    /\ probePath = <<>>
    /\ probeOut = NoProbeOut

\* the execplans directory holds one of the trees and no call is running
EngineInit(trees, isConcurrent) ==
    /\ \E t \in trees :
          /\ files = t.files
          /\ dirs = t.dirs
          \* the milestone numbers the calls that built the tree handed out
          /\ allocated = [i \in IdInputs |-> IF i = Id(D1, 1) THEN t.allocated ELSE <<>>]
    /\ registry = NoRegistry
    /\ lockHolder = [i \in IdInputs |-> NoProc]
    /\ pc = [p \in Procs |-> "idle"]
    /\ loc = [p \in Procs |-> IdleLoc]
    /\ opsLeft = IF isConcurrent THEN MaxConcurrentOps ELSE MaxOps
    /\ faultsLeft = MaxFaults
    /\ created = {}
    /\ concurrent = isConcurrent
    /\ extLeft = IF isConcurrent THEN 0 ELSE MaxExternal

InitFrom(trees, isConcurrent) ==
    /\ WinIdle
    /\ StreamIdle
    /\ PathIdle
    /\ EngineInit(trees, isConcurrent)

InitWith(isConcurrent) == InitFrom(InitTrees, isConcurrent)
Init == InitWith(TRUE)
InitSeq == InitWith(FALSE)
InitArchive == InitFrom(ArchiveTrees, FALSE)
InitRegistry == InitFrom(RegistryTrees, FALSE)
InitMilestone == InitFrom(MilestoneTrees, FALSE)
InitCreate == InitFrom(CreateTrees, TRUE)
InitCreateSeq == InitFrom(CreateTrees, FALSE)

\* --------------------------------------------------------------- next
Step(p) ==
    \/ \E slug \in SlugInputs, day \in CreateDays, upd \in UpdInputs :
          CreateValidate(p, slug, day, upd)
    \/ CreateCollision(p)
    \/ CreateSequence(p)
    \/ CreateWrite(p)
    \/ RegistryCollect(p)
    \/ RegistryWrite(p)
    \/ \E i \in IdInputs, day \in ArchiveDays, upd \in UpdInputs : ArchiveOpen(p, i, day, upd)
    \/ file_lock_acquire(p)
    \/ ArchiveCheck(p)
    \/ ArchiveMkdir(p)
    \/ ArchiveMoveRoot(p)
    \/ ArchiveMovePlan(p)
    \/ ArchiveMoveMilestones(p)
    \/ ArchiveMark(p)
    \/ ArchiveRollback(p)
    \/ file_lock_release(p)
    \/ \E i \in IdInputs : MilestoneCreateOpen(p, i)
    \/ MilestoneCreateCheck(p)
    \/ MilestoneCreateWrite(p)
    \/ \E i \in IdInputs, sequence \in MsSeqInputs : MilestoneArchiveOpen(p, i, sequence)
    \/ MilestoneArchiveMove(p)
    \/ Return(p)

NextEngine == \E p \in Procs : Step(p)
NextEnv == ExternalWriteMilestone \/ ExternalDeleteArchivedMilestone

\* concurrent processes, engine calls only
Next == NextEngine
Spec == Init /\ [][Next]_vars

\* A call that has begun goes on: its thread is scheduled again and again,
\* every system call returns, and flock(LOCK_EX) returns once the lock stays
\* free. Nothing obliges a process to begin a call.
\* (The calls that take the Mutation Lock, without the registry rebuild.)
StepLocked(p) ==
    \/ \E i \in IdInputs, day \in ArchiveDays : ArchiveOpen(p, i, day, FALSE)
    \/ file_lock_acquire(p)
    \/ ArchiveCheck(p)
    \/ ArchiveMkdir(p)
    \/ ArchiveMoveRoot(p)
    \/ ArchiveMovePlan(p)
    \/ ArchiveMoveMilestones(p)
    \/ ArchiveMark(p)
    \/ ArchiveRollback(p)
    \/ file_lock_release(p)
    \/ \E i \in IdInputs : MilestoneCreateOpen(p, i)
    \/ MilestoneCreateCheck(p)
    \/ MilestoneCreateWrite(p)
    \/ \E i \in IdInputs, sequence \in MsSeqInputs : MilestoneArchiveOpen(p, i, sequence)
    \/ MilestoneArchiveMove(p)
    \/ Return(p)
Running(p) == pc[p] # "idle" /\ StepLocked(p)
NextLive == \E p \in Procs : StepLocked(p)
SpecLive ==
    /\ InitFrom({ModernTree, LegacyTree}, TRUE)
    /\ [][NextLive]_vars
    /\ \A p \in Procs : WF_vars(Running(p))

\* one call at a time, with external changes between calls
NextSeq == NextEngine \/ NextEnv
SpecSeq == InitSeq /\ [][NextSeq]_vars

\* create_execplan and archive_execplan, one call at a time, on trees that
\* hold the files of two plans side by side
StepArchive(p) ==
    \/ \E slug \in SlugInputs, day \in CreateDays, upd \in UpdInputs :
          CreateValidate(p, slug, day, upd)
    \/ CreateCollision(p)
    \/ CreateSequence(p)
    \/ CreateWrite(p)
    \/ RegistryCollect(p)
    \/ RegistryWrite(p)
    \/ \E i \in IdInputs, day \in ArchiveDays, upd \in UpdInputs : ArchiveOpen(p, i, day, upd)
    \/ file_lock_acquire(p)
    \/ ArchiveCheck(p)
    \/ ArchiveMkdir(p)
    \/ ArchiveMoveRoot(p)
    \/ ArchiveMovePlan(p)
    \/ ArchiveMoveMilestones(p)
    \/ ArchiveMark(p)
    \/ ArchiveRollback(p)
    \/ file_lock_release(p)
    \/ Return(p)
NextArchive == \E p \in Procs : StepArchive(p)
SpecArchive == InitArchive /\ [][NextArchive]_vars

\* create_execplan_milestone and archive_execplan_milestone, one call at a time
NextMilestone ==
    \E p \in Procs :
        \/ \E i \in IdInputs : MilestoneCreateOpen(p, i)
        \/ MilestoneCreateCheck(p)
        \/ MilestoneCreateWrite(p)
        \/ \E i \in IdInputs, sequence \in MsSeqInputs : MilestoneArchiveOpen(p, i, sequence)
        \/ MilestoneArchiveMove(p)
        \/ file_lock_acquire(p)
        \/ file_lock_release(p)
        \/ Return(p)
SpecMilestone == InitMilestone /\ [][NextMilestone]_vars

\* file_lock calls of concurrent processes on one lock file, byte-range backend
NextWinLock ==
    \E p \in Procs :
        \/ WinOpen(p)
        \/ WinAttempt(p)
        \/ WinTimeout(p)
        \/ WinEnter(p)
        \/ WinRelease(p)
        \/ WinReturn(p)
SpecWinLock == InitFrom({EmptyTree}, TRUE) /\ [][NextWinLock]_vars

\* one blocking iterator adapted by iterate_in_thread: worker thread and
\* consumer run concurrently
NextStream ==
    \/ \E n \in 0..MaxItems, raises \in ExceptionInputs :
          \E items \in [1..n -> ItemInputs] : StreamOpen(items, raises)
    \/ RunnerPutItem
    \/ RunnerEndOfLoop
    \/ RunnerPutError
    \/ RunnerPutSentinel
    \/ ConsumerGet
SpecStream == InitFrom({EmptyTree}, TRUE) /\ [][NextStream]_vars

\* the path classification applied to every path below a path of ProbePaths
InitPaths ==
    /\ WinIdle
    /\ StreamIdle
    /\ EngineInit({EmptyTree}, TRUE)
    /\ probePath \in ProbePaths
    /\ probeOut = NoProbeOut
NextPaths == Classify \/ \E c \in ProbeNames \cup ProbeNumbers : Descend(c)
SpecPaths == InitPaths /\ [][NextPaths]_vars

\* create_execplan only, on either day
StepCreate(p) ==
    \/ \E slug \in SlugInputs, day \in CreateDayInputs, upd \in UpdInputs :
          CreateValidate(p, slug, day, upd)
    \/ CreateCollision(p)
    \/ CreateSequence(p)
    \/ CreateWrite(p)
    \/ RegistryCollect(p)
    \/ RegistryWrite(p)
    \/ Return(p)
NextCreate == \E p \in Procs : StepCreate(p)
\* concurrent creators
SpecCreate == InitCreate /\ [][NextCreate]_vars
\* one creator at a time
SpecCreateSeq == InitCreateSeq /\ [][NextCreate]_vars

\* build_execplan_registry and create_execplan, one call at a time
NextRegistry ==
    \E p \in Procs :
        \/ \E fail_on_warn \in BOOLEAN : RegistryBuildOpen(p, fail_on_warn)
        \/ StepCreate(p)
SpecRegistry == InitRegistry /\ [][NextRegistry]_vars

\* ===================================================================
\* Properties
\* ===================================================================
LockedOps ==
    {"archive_execplan", "create_execplan_milestone", "archive_execplan_milestone"}
\* positions between flock(LOCK_EX) and flock(LOCK_UN)
LockHeld ==
    {"a_check", "a_mkdir", "a_move_root", "a_move_plan", "a_move_milestones",
     "a_mark", "a_rollback", "m_check", "m_write", "ma_move", "unlock"}
\* positions whose step reads the tree to decide the change
ScanPositions == {"a_check", "m_check", "m_write", "ma_move"}

\* the documents of a tree: everything but the lock files
Docs(f) == [q \in {x \in DOMAIN f : ~IsPrefix(LocksDir, x)} |-> f[q]]
DocDirs(d) == {x \in d : ~IsPrefix(LocksDir, x)}

PlanFiles(f) == {q \in DOMAIN f : Name(q).k = "plan"}
PlanFilesWithId(f, id) == {q \in PlanFiles(f) : Id(Name(q).d, Name(q).s) = id}
ArchiveEnded(p) == pc[p] = "done" /\ loc[p].op = "archive_execplan"
Reverse(s) == [i \in 1..Len(s) |-> s[Len(s) + 1 - i]]

\* C1: after archive_execplan returns or raises on an ExecPlan that
\* create_execplan made (or that had one plan file when the call began),
\* exactly one plan file carries that id, on the success path and on every
\* injected-failure path; after a failed move the source plan file is in
\* place, unchanged, and nothing lies at the archive destination.
C1_ExactlyOnePlanFile ==
    \A p \in Procs :
        (/\ ArchiveEnded(p)
         /\ \/ loc[p].id \in created
            \/ Cardinality(PlanFilesWithId(loc[p].preFiles, loc[p].id)) = 1) =>
            /\ Cardinality(PlanFilesWithId(loc[p].preFiles, loc[p].id)) = 1
            /\ Cardinality(PlanFilesWithId(files, loc[p].id)) = 1
            /\ loc[p].err = "move_failed" =>
                  \A src \in PlanFilesWithId(loc[p].preFiles, loc[p].id) :
                      /\ src \in DOMAIN files
                      /\ files[src] = loc[p].preFiles[src]
                      /\ \A q \in DOMAIN files : ~IsPrefix(loc[p].dst, q)

C1_Witness ==
    \E p \in Procs :
        /\ ArchiveEnded(p)
        /\ loc[p].id \in created
        /\ loc[p].err = "mark_failed"
        /\ Len(loc[p].undos) = 1

\* C2: when archive_execplan fails after a completed move, it undoes the
\* completed moves in reverse order of execution and re-raises the error of
\* the failed step: every document is back at its source path with its
\* content and every directory of the source tree is there again; when an
\* undo fails it raises the fatal error, which names one path that exists
\* under the archive destination.
C2_RollbackRestores ==
    \A p \in Procs :
        (ArchiveEnded(p) /\ loc[p].moves # <<>>) =>
            /\ (loc[p].out = "err" /\ loc[p].err \in {"move_failed", "mark_failed"}) =>
                  /\ loc[p].undos = Reverse(loc[p].moves)
                  /\ Docs(files) = Docs(loc[p].preFiles)
                  /\ DocDirs(loc[p].preDirs) \subseteq dirs
            /\ loc[p].out = "fatal" =>
                  /\ loc[p].err = "rollback_failed"
                  /\ Cardinality(loc[p].named) = 1
                  /\ \A q \in loc[p].named :
                        /\ IsPrefix(loc[p].dst, q)
                        /\ PathExists(files, dirs, q)

C2_Witness ==
    \E p \in Procs :
        /\ ArchiveEnded(p)
        /\ loc[p].legacy
        /\ loc[p].out = "err"
        /\ loc[p].err = "mark_failed"
        /\ Len(loc[p].moves) = 2
        /\ Len(loc[p].undos) = 2

\* C3: create_execplan and archive_execplan are all-or-nothing: when either
\* raises an error other than the fatal rollback failure, the directories and
\* documents under the execplans directory are what they were before the call.
C3_AllOrNothing ==
    \A p \in Procs :
        (/\ pc[p] = "done"
         /\ loc[p].op \in {"create_execplan", "archive_execplan"}
         /\ loc[p].out = "err") =>
            /\ Docs(files) = Docs(loc[p].preFiles)
            /\ DocDirs(dirs) = DocDirs(loc[p].preDirs)

\* C4: at most one process is inside the lock-held section of
\* archive_execplan, create_execplan_milestone or archive_execplan_milestone
\* for one ExecPlan id, and the process inside is the holder of that id's
\* lock: a second caller waits at the flock until the holder has released.
C4_MutualExclusion ==
    /\ \A p, q \in Procs :
          (p # q /\ pc[p] \in LockHeld /\ pc[q] \in LockHeld) => loc[p].id # loc[q].id
    /\ \A p \in Procs : pc[p] \in LockHeld => lockHolder[loc[p].id] = p

C4_Witness ==
    \E p, q \in Procs :
        /\ p # q
        /\ pc[p] \in LockHeld \ {"unlock"}
        /\ pc[q] = "lock"
        /\ loc[p].id = loc[q].id

\* a plan root or anything below it (active/<slug>, archive/Y/M/D/<leaf>, ...)
Structural(path) == Len(path) >= 2 /\ ~IsPrefix(LocksDir, path)
StructuralChange ==
    \/ [q \in {x \in DOMAIN files' : Structural(x)} |-> files'[q]]
           # [q \in {x \in DOMAIN files : Structural(x)} |-> files[q]]
    \/ {x \in dirs' : Structural(x)} # {x \in dirs : Structural(x)}
HoldsLock(p, id) == id \in DOMAIN lockHolder /\ lockHolder[id] = p
HoldsAnyLock(p) == \E i \in DOMAIN lockHolder : lockHolder[i] = p
Mover(p) == pc'[p] # pc[p]

C6_UniquePlanIds ==
    \A q1, q2 \in PlanFiles(files) :
        q1 # q2 => Id(Name(q1).d, Name(q1).s) # Id(Name(q2).d, Name(q2).s)

\* The blockers of archiving the plan of plan root r in tree f.
InActiveLocation(r, q) == IsPrefix(r \o <<Dir(MILESTONES_DIR), Dir(ACTIVE_DIR)>>, q)
InMilestoneLocation(r, q) ==
    \/ IsPrefix(r \o <<Dir(MILESTONES_DIR), Dir(ACTIVE_DIR)>>, q)
    \/ IsPrefix(r \o <<Dir(MILESTONES_DIR), Dir(ARCHIVE_DIR)>>, q)
FrontMatterValid(c) == c.id # NoId /\ c.msid = c.id
\* the owner a milestone file declares: its front matter's execplan_id; a
\* legacy file name EP-..._MS###_... carries the owner itself
OwnerOf(f, q) == IF Name(q).k = "lms" THEN Id(Name(q).d, Name(q).s) ELSE f[q].id
Blockers(f, r, id) ==
    {q \in DOMAIN f :
        \/ InActiveLocation(r, q) /\ FrontMatterValid(f[q]) /\ f[q].id = id
        \/ InActiveLocation(r, q) /\ ~FrontMatterValid(f[q])
        \/ InMilestoneLocation(r, q) /\ OwnerOf(f, q) \notin {NoId, id}}

C8_ArchivedPlanHasNoActiveMilestone ==
    \A q \in PlanFiles(files) :
        is_execplan_archive_path(q) =>
            ~\E m \in DOMAIN files :
                InActiveLocation(get_execplan_plan_root(q).plan_root, m)

C8_Witness ==
    /\ \E q \in PlanFiles(files) : is_execplan_archive_path(q)
    /\ \E p \in Procs :
          /\ pc[p] = "done"
          /\ loc[p].op = "create_execplan_milestone"
          /\ loc[p].err = "execplan_archived"

\* C9: a milestone number once allocated to an ExecPlan is never allocated to
\* it again.
C9_NeverReused ==
    \A i \in DOMAIN allocated :
        \A a, b \in 1..Len(allocated[i]) :
            a # b => allocated[i][a] # allocated[i][b]

\* C10: archive_execplan on an id whose plan file lies under an archive path
\* raises the already-archived conflict and leaves that file, and every other
\* document, at its path with its content.
C10_ReArchiveRejected ==
    \A p \in Procs :
        ArchiveEnded(p) =>
            \A src \in PlanFilesWithId(loc[p].preFiles, loc[p].id) :
                (/\ PlanFilesWithId(loc[p].preFiles, loc[p].id) = {src}
                 /\ is_execplan_archive_path(src)) =>
                    /\ loc[p].out = "err"
                    /\ loc[p].err = "already_archived"
                    /\ src \in DOMAIN files
                    /\ files[src] = loc[p].preFiles[src]
                    /\ Docs(files) = Docs(loc[p].preFiles)

C10_Witness ==
    \E p \in Procs :
        /\ ArchiveEnded(p)
        /\ loc[p].err = "already_archived"
        /\ \E q \in PlanFilesWithId(files, loc[p].id) : files[q].status = "archived"

\* the sequence a creator is due on a tree: one more than the largest sequence
\* among the plan files of that day outside milestone directories, 1 when none
ExpectedSeq(f, day) ==
    LET seqs == {Name(q).s : q \in {x \in PlanFiles(f) :
                                        /\ Name(x).d = day
                                        /\ ~is_execplan_milestone_path(x)}}
    IN IF seqs = {} THEN 1
       ELSE 1 + (CHOOSE m \in seqs : \A n \in seqs : n <= m)
CreateEnded(p) == pc[p] = "done" /\ loc[p].op = "create_execplan"
\* errors raised before the sequence is allocated
EarlyCreateErrors == {"reserved_slug", "slug_collision"}

\* C11: a create_execplan with no concurrent creator returns EP-D-NNN where
\* NNN is one more than the largest sequence among the existing plan files of
\* day D (active or archived, any layout, milestone paths excluded), 1 when
\* there is none; past 999 the call raises and creates no plan file.
C11_NextSequence ==
    \A p \in Procs :
        CreateEnded(p) =>
            LET n == ExpectedSeq(loc[p].preFiles, loc[p].day)
            IN /\ loc[p].out = "ok" =>
                     /\ n <= MaxPlanSequence
                     /\ loc[p].id = Id(loc[p].day, n)
                     /\ PlanFiles(files) \ PlanFiles(loc[p].preFiles)
                           = {loc[p].root \o <<PlanFile(Id(loc[p].day, n), loc[p].slug)>>}
               /\ (n > MaxPlanSequence /\ loc[p].err \notin EarlyCreateErrors) =>
                     loc[p].err = "sequence_overflow"
               /\ loc[p].err = "sequence_overflow" =>
                     /\ n > MaxPlanSequence
                     /\ PlanFiles(files) = PlanFiles(loc[p].preFiles)
\* a third plan of day D1 after an active and an archived one, on a tree whose
\* milestone directory holds a file numbered 050 that does not count
C11_Witness ==
    \E p \in Procs :
        /\ CreateEnded(p)
        /\ loc[p].out = "ok"
        /\ loc[p].id = Id(D1, 3)
        /\ \E q \in DOMAIN loc[p].preFiles : Name(q) = LegacyMsFile(Id(D1, 50), 1, MsSlug)
C11_WitnessOverflow ==
    \E p \in Procs : CreateEnded(p) /\ loc[p].err = "sequence_overflow"

\* the plan files below a plan root, milestone directories excluded
PlanFilesIn(f, root) ==
    {q \in PlanFiles(f) : Under(root, q) /\ ~is_execplan_milestone_path(q)}

\* C12: every plan root that create_execplan wrote into holds exactly one
\* plan file, after any interleaving of create calls, same slug with the same
\* or different day tokens included; a collision ends in an error, never in
\* a second plan file.
C12_OnePlanFilePerRoot ==
    \A p \in Procs :
        (CreateEnded(p) /\ loc[p].src \in loc[p].made) =>
            Cardinality(PlanFilesIn(files, loc[p].root)) = 1

\* the rejections of create_execplan that the model covers
ValidationErrors == {"reserved_slug", "slug_collision", "sequence_overflow"}

\* C13: a create_execplan that validation rejected (reserved or colliding
\* slug, sequence overflow) has created no directory and no file: every
\* validation runs before the first directory or file is created.
C13_RejectedCreateMadeNothing ==
    \A p \in Procs :
        (CreateEnded(p) /\ loc[p].err \in ValidationErrors) => loc[p].made = {}

\* a registry entry in the state before its plan was archived, or after
PreArchiveEntry(e) == ~is_execplan_archive_path(e.path) /\ e.status = "planned"
PostArchiveEntry(e) ==
    /\ is_execplan_archive_path(e.path)
    /\ e.status = "archived"
    /\ \E day \in ArchiveDays : e.updated = IsoDate(day)

\* C14: a registry collect that runs beside archive_execplan(X) without a
\* lock sees plan X either wholly as before the archive (source path,
\* original status) or wholly as after it (archive path, status archived,
\* updated refreshed), never a mixture; checked for runs without I/O faults.
C14_CollectSeesWholeArchive ==
    \A p \in Procs :
        (pc[p] = "r_write" /\ faultsLeft = MaxFaults) =>
            \A e \in loc[p].snap.plans : PreArchiveEntry(e) \/ PostArchiveEntry(e)

\* a plan file of another id, or a milestone file that names another id as
\* its owner
OwnedByOther(f, q, id) ==
    \/ Name(q).k = "plan" /\ Id(Name(q).d, Name(q).s) # id
    \/ Name(q).k \in {"ms", "lms"} /\ OwnerOf(f, q) \notin {NoId, id}
\* the paths of a tree that a later tree no longer holds with that content
Touched(pre, post) == {q \in DOMAIN pre : q \notin DOMAIN post \/ post[q] # pre[q]}
\* the legacy milestones subtree
LegacyMilestones == <<Dir(EXECPLAN_ACTIVE_DIR), Dir(MILESTONES_DIR)>>

\* C15: archive_execplan(X), whether it succeeds or fails, changes neither
\* the path nor the content of a plan or milestone file owned by another id;
\* it refuses a plan root that holds a second plan file or a milestone of
\* another id; in the legacy shared active/ root it moves only X's plan file
\* and a milestones subtree that holds only X's files.
C15_OtherPlansUntouched ==
    \A p \in Procs :
        ArchiveEnded(p) =>
            LET pre == loc[p].preFiles
                X == loc[p].id
                moved == Touched(Docs(pre), Docs(files))
            IN /\ \A q \in DOMAIN pre : OwnedByOther(pre, q, X) => q \notin moved
               /\ \A src \in PlanFilesWithId(pre, X) :
                     LET root == get_execplan_plan_root(src).plan_root
                     IN (/\ PlanFilesWithId(pre, X) = {src}
                         /\ ~is_execplan_archive_path(src)
                         /\ \E q \in DOMAIN pre :
                               /\ OwnedByOther(pre, q, X)
                               /\ IF Parent(src) = <<Dir(EXECPLAN_ACTIVE_DIR)>>
                                  THEN Parent(q) = Parent(src) \/ IsPrefix(LegacyMilestones, q)
                                  ELSE IsPrefix(root, q)) =>
                            /\ loc[p].out = "err"
                            /\ moved = {}
               /\ \A src \in PlanFilesWithId(pre, X) :
                     Parent(src) = <<Dir(EXECPLAN_ACTIVE_DIR)>> =>
                        \A q \in moved :
                            \/ q = src
                            \/ IsPrefix(LegacyMilestones, q) /\ OwnerOf(pre, q) = X
\* a successful archive beside the files of another plan
C15_Witness ==
    \E p \in Procs :
        /\ ArchiveEnded(p)
        /\ loc[p].out = "ok"
        /\ \E q \in DOMAIN loc[p].preFiles : OwnedByOther(loc[p].preFiles, q, loc[p].id)
        /\ Touched(Docs(loc[p].preFiles), Docs(files)) # {}
\* a refused archive of a plan root shared by two plans
C15_WitnessRefused ==
    \E p \in Procs :
        /\ ArchiveEnded(p)
        /\ loc[p].err \in {"multiple_plans_in_root", "multiple_top_level_plans",
                            "foreign_milestones", "mixed_ownership"}

BuildEnded(p) == pc[p] = "done" /\ loc[p].op = "build_execplan_registry"

\* C16: build_execplan_registry writes the registry file and returns
\* wrote_registry = True exactly when the collected result has no error and
\* not (fail_on_warn and at least one warning); otherwise it returns
\* wrote_registry = False, creates no output file and leaves a registry file
\* written earlier as it was.
C16_WritesExactlyWhenClean ==
    \A p \in Procs :
        (BuildEnded(p) /\ loc[p].out = "ok") =>
            LET result == loc[p].snap
                clean == /\ result.error_count = 0
                         /\ ~(loc[p].fow /\ result.warning_count >= 1)
            IN /\ loc[p].wrote <=> clean
               /\ loc[p].wrote => registry = [present |-> TRUE, plans |-> result.plans]
               /\ ~loc[p].wrote => registry = loc[p].preRegistry
\* a build with fail_on_warn that found a warning and left the registry file
\* of an earlier build in place
C16_Witness ==
    \E p \in Procs :
        /\ BuildEnded(p)
        /\ loc[p].out = "ok"
        /\ loc[p].fow
        /\ loc[p].snap.error_count = 0
        /\ loc[p].snap.warning_count >= 1
        /\ ~loc[p].wrote
        /\ registry.present
C16_WitnessWrote ==
    \E p \in Procs : BuildEnded(p) /\ loc[p].wrote /\ loc[p].snap.warning_count >= 1
C16_WitnessErrors ==
    \E p \in Procs : BuildEnded(p) /\ loc[p].out = "ok" /\ loc[p].snap.error_count > 0

\* C17: every plan listed in the registry that collect_execplan_registry
\* returns is free of errors: no per-file error, no duplicate id, and every
\* depends_on / supersedes entry is the id of a listed plan.
C17_ListedPlansHaveNoError ==
    \A p \in Procs :
        pc[p] = "r_write" =>
            \A e \in loc[p].snap.plans :
                /\ e.id = extract_execplan_id_from_filename(Name(e.path))
                /\ \A o \in loc[p].snap.plans : o.id = e.id => o = e
                /\ e.dep # NoId => \E o \in loc[p].snap.plans : o.id = e.dep

\* no external change and no I/O fault so far
EngineOnly == extLeft = MaxExternal
NoFaultSoFar == faultsLeft = MaxFaults
\* every plan file of the tree was written by create_execplan: the execplans
\* directory was empty at the start
FromEmpty == \A q \in PlanFiles(files) : Id(Name(q).d, Name(q).s) \in created

\* C18: after any series of successful create_execplan, archive_execplan,
\* create_execplan_milestone and archive_execplan_milestone calls, one at a
\* time, on an execplans directory that was empty at the start,
\* collect_execplan_registry reports no error and no warning.
C18_EngineTreeCollectsClean ==
    (AllIdle /\ EngineOnly /\ NoFaultSoFar /\ FromEmpty /\ <<>> \in dirs) =>
        /\ collect_execplan_registry(files).error_count = 0
        /\ collect_execplan_registry(files).warning_count = 0
        /\ {e.path : e \in collect_execplan_registry(files).plans} = PlanFiles(files)
\* a plan that was created, given a milestone and archived with it
C18_Witness ==
    /\ AllIdle /\ EngineOnly /\ NoFaultSoFar /\ FromEmpty
    /\ \E q \in PlanFiles(files) : is_execplan_archive_path(q) /\ files[q].status = "archived"
    /\ \E q \in PlanFiles(files) : ~is_execplan_archive_path(q)

\* C19: a successful archive_execplan in the current layout leaves the
\* whole plan root at archive/YYYY/MM/DD/<id>_<slug>/ and no directory at the
\* source; the plan file has status archived and updated = the archive day
\* as YYYY-MM-DD; every other field, and every other file of the root, is as
\* it was.
C19_ArchiveMovesWholeRoot ==
    \A p \in Procs :
        (ArchiveEnded(p) /\ loc[p].out = "ok" /\ loc[p].day = D2) =>
            \A src \in PlanFilesWithId(loc[p].preFiles, loc[p].id) :
                Len(src) = 3 =>
                    LET pre == loc[p].preFiles
                        root == Parent(src)
                        dst == <<Dir("archive"), NumDir(2026, 4), NumDir(2, 2),
                                 NumDir(12, 2),
                                 [k |-> "leaf", n |-> Name(root).n, d |-> loc[p].id.d,
                                  s |-> loc[p].id.s, m |-> 0]>>
                        under == {q \in DOMAIN pre : IsPrefix(root, q)}
                    IN /\ Named(src[1], "active") /\ src[2].k = "dir"
                       /\ {q \in DOMAIN files : IsPrefix(dst, q)}
                             = {dst \o RelativeTo(q, root) : q \in under}
                       /\ \A q \in under \ {src} :
                             files[dst \o RelativeTo(q, root)] = pre[q]
                       /\ files[dst \o <<Name(src)>>] =
                             [pre[src] EXCEPT !.status = "archived",
                                              !.updated = [y |-> 2026, m |-> 2, d |-> 12]]
                       /\ \A q \in DOMAIN files : ~IsPrefix(root, q)
                       /\ \A x \in dirs : ~IsPrefix(root, x)
                       /\ {dst \o RelativeTo(x, root) :
                              x \in {y \in loc[p].preDirs : IsPrefix(root, y)}} \subseteq dirs
\* an archive that carried a milestone file along with the plan file
C19_Witness ==
    \E p \in Procs :
        /\ ArchiveEnded(p) /\ loc[p].out = "ok" /\ ~loc[p].legacy
        /\ \E q \in DOMAIN files :
              /\ Name(q).k = "ms"
              /\ IsPrefix(<<Dir("archive"), NumDir(2026, 4), NumDir(2, 2), NumDir(12, 2)>>, q)
              /\ q \notin DOMAIN loc[p].preFiles

\* C20: with engine operations only, the successful
\* create_execplan_milestone calls for one plan return 1, 2, 3, ... without
\* gap or repetition; archiving a milestone never frees its number.
C20_MilestoneNumbersCount ==
    EngineOnly =>
        \A i \in DOMAIN allocated :
            \A n \in 1..Len(allocated[i]) : allocated[i][n] = n
\* the third milestone of a plan, numbered after the second was archived
C20_Witness ==
    /\ EngineOnly
    /\ \E i \in DOMAIN allocated :
          /\ allocated[i] = <<1, 2, 3>>
          /\ \E q \in DOMAIN files :
                /\ Name(q).m = 2
                /\ Name(q).k \in {"ms", "lms"}
                /\ InActiveOrArchive(q[Len(q) - 1]) /\ Named(q[Len(q) - 1], ARCHIVE_DIR)

MilestoneArchiveEnded(p) == pc[p] = "done" /\ loc[p].op = "archive_execplan_milestone"
\* milestones/active and milestones/archive of the plan root that owns a plan file
MilestonesOf(src, where) ==
    (IF Len(src) = 2 THEN <<src[1]>> ELSE Parent(src)) \o <<Dir("milestones"), Dir(where)>>
\* the active milestone files of plan X with the given sequence
ActiveMilestones(f, src, X, seq) ==
    {q \in DOMAIN f : /\ Parent(q) = MilestonesOf(src, "active")
                      /\ Name(q).k \in {"ms", "lms"}
                      /\ Name(q).m = seq
                      /\ OwnerOf(f, q) = X}

\* C21: archive_execplan_milestone(id, seq) moves exactly one file, the one
\* active milestone of that plan with that sequence, from milestones/active
\* straight into milestones/archive (no date directory), under the same
\* name and with the same content; it raises and moves nothing when there
\* is no such active file, more than one, or a file of that name already in
\* milestones/archive.
C21_MilestoneArchiveMovesOne ==
    \A p \in Procs :
        MilestoneArchiveEnded(p) =>
            \A src \in PlanFilesWithId(loc[p].preFiles, loc[p].id) :
                LET pre == Docs(loc[p].preFiles)
                    cands == ActiveMilestones(pre, src, loc[p].id, loc[p].seq)
                    taken == {q \in cands :
                                MilestonesOf(src, "archive") \o <<Name(q)>> \in DOMAIN pre}
                IN /\ loc[p].out = "ok" =>
                         /\ cands = {loc[p].src}
                         /\ taken = {}
                         /\ loc[p].dst = MilestonesOf(src, "archive") \o <<Name(loc[p].src)>>
                         /\ DOMAIN Docs(files) = (DOMAIN pre \ {loc[p].src}) \cup {loc[p].dst}
                         /\ files[loc[p].dst] = pre[loc[p].src]
                         /\ \A q \in DOMAIN pre \ {loc[p].src} : files[q] = pre[q]
                   /\ (Cardinality(cands) # 1 \/ taken # {}) =>
                         /\ loc[p].out = "err"
                         /\ Docs(files) = pre
                   /\ loc[p].out = "err" => Docs(files) = pre
                   \* the only other failure is the I/O failure of the move
                   /\ (/\ PlanFilesWithId(pre, loc[p].id) = {src}
                       /\ Cardinality(cands) = 1
                       /\ taken = {}
                       /\ loc[p].out = "err") => loc[p].err = "move_failed"
\* a move of the plan's milestone 1 past an active file of another plan with
\* the same sequence
C21_Witness ==
    \E p \in Procs :
        /\ MilestoneArchiveEnded(p)
        /\ loc[p].out = "ok"
        /\ \E q \in DOMAIN files :
              /\ Parent(q) = Parent(loc[p].src)
              /\ Name(q).m = loc[p].seq
              /\ OwnerOf(files, q) = ForeignId
C21_WitnessTaken ==
    \E p \in Procs : MilestoneArchiveEnded(p) /\ loc[p].err = "destination_exists"
C21_WitnessSeveral ==
    \E p \in Procs : MilestoneArchiveEnded(p) /\ loc[p].err = "multiple_milestones"

\* C22: on the byte-range backend an acquire makes at most 200 non-blocking
\* attempts; it returns at the first attempt that succeeds; after 200
\* failed attempts it raises the timeout error, and the call has then
\* neither entered the with-body nor tried to unlock; in the loop one more
\* step (an attempt or the raise) is always possible, so it never blocks.
C22_BoundedLockAttempts ==
    \A p \in Procs :
        /\ winTries[p] <= 200
        /\ winLog[p].failed <= winTries[p]
        /\ winPc[p] \in {"locked", "body"} =>
              /\ winHolder = p
              /\ winLog[p].failed = winTries[p] - 1
        /\ winPc[p] = "timeout" =>
              /\ winTries[p] = 200
              /\ winLog[p].failed = 200
              /\ winHolder # p
              /\ ~winLog[p].entered
              /\ ~winLog[p].unlocked
        /\ winPc[p] = "retry" => ENABLED (WinAttempt(p) \/ WinTimeout(p))
        /\ winLog[p].entered => winLog[p].failed < 200
\* a process that gave up after 200 attempts while the other held the lock
C22_Witness ==
    \E p \in Procs :
        /\ winPc[p] = "timeout"
        /\ winHolder \notin {p, NoProc}
\* a process that got the lock at its 200th attempt
C22_WitnessLast ==
    \E p \in Procs : winPc[p] = "body" /\ winTries[p] = 200

\* C23: the Mutation Lock is per ExecPlan id. A process waiting at the flock
\* for id A can take it whenever no other process is inside the lock-held
\* section for A, whatever locks are held for other ids; the lock file of an
\* id is held only by a process operating on that id; and the lock files of
\* different ids are different files.
C23_LocksAreIndependent ==
    /\ \A p \in Procs :
          /\ (/\ pc[p] = "lock"
              /\ \A q \in Procs \ {p} :
                    ~(pc[q] \in LockHeld /\ loc[q].id = loc[p].id)) =>
                 ENABLED file_lock_acquire(p)
          /\ \A i \in IdInputs : lockHolder[i] = p =>
                 /\ loc[p].id = i
                 /\ FileExists(files, get_execplan_lock_path(i))
    /\ \A i, j \in IdInputs :
          i # j => get_execplan_lock_path(i) # get_execplan_lock_path(j)

\* a process is about to take the lock of one id while another process is
\* inside the lock-held section of a different id
C23_Witness ==
    \E p, q \in Procs :
        /\ pc[p] = "lock"
        /\ pc[q] \in LockHeld \ {"unlock"}
        /\ loc[p].id # loc[q].id

\* two operations on different ids are inside their lock-held sections
C23_WitnessBothInside ==
    \E p, q \in Procs :
        /\ pc[p] \in LockHeld \ {"unlock"}
        /\ pc[q] \in LockHeld \ {"unlock"}
        /\ loc[p].id # loc[q].id
        /\ lockHolder[loc[p].id] = p
        /\ lockHolder[loc[q].id] = q

\* the plan files archive_execplan has finished with: in the archive, marked
ArchivedPlans(f) ==
    {q \in PlanFiles(f) : is_execplan_archive_path(q) /\ f[q].status = "archived"}

\* C24: archived is absorbing and plan files are never deleted. A plan file
\* that archive_execplan has moved into the archive and marked archived keeps
\* its path and its whole content (status included) at every later step of
\* any create_execplan, archive_execplan, create_execplan_milestone or
\* archive_execplan_milestone call, for its id or another; and no step of an
\* engine call removes a plan file: every plan file is still there after the
\* step, under the same file name with the same id, moved at most.
C24_ArchivedIsAbsorbing ==
    [][/\ \A q \in ArchivedPlans(files) :
             /\ q \in DOMAIN files'
             /\ files'[q] = files[q]
       /\ \A q \in PlanFiles(files) :
             \E r \in PlanFiles(files') :
                 /\ Name(r) = Name(q)
                 /\ files'[r].id = files[q].id
       /\ Cardinality(PlanFiles(files')) >= Cardinality(PlanFiles(files))]_vars

\* a plan is archived, a later archive or milestone call on its id has been
\* refused, and the run has used up its calls
C24_Witness ==
    \E p \in Procs :
        /\ pc[p] = "done"
        /\ loc[p].op \in {"archive_execplan", "create_execplan_milestone",
                          "archive_execplan_milestone"}
        /\ loc[p].out = "err"
        /\ \E q \in ArchivedPlans(files) : files[q].id = loc[p].id
        /\ opsLeft = 0

\* the plan files of a tree that pass the per-file validation
ValidPlans(f) == {q \in _iter_execplan_files(f) : PlanErrors(f, q) = 0}
Collected(p) == pc[p] = "r_write"

\* C25: when k >= 2 plan files that are each valid on their own carry one
\* id, collect_execplan_registry reports exactly k - 1 duplicate-id errors
\* for that id, each naming two different files of the k; with k = 2 the one
\* error names both files; an id carried by one file has no such error.
C25_DuplicateIssues ==
    \A p \in Procs :
        Collected(p) =>
            LET duplicates == {i \in loc[p].snap.issues : i.kind = "duplicate"}
            IN /\ \A id \in {files[q].id : q \in ValidPlans(files)} :
                     LET same == {q \in ValidPlans(files) : files[q].id = id}
                         mine == {i \in duplicates : i.id = id}
                     IN /\ Cardinality(mine) = Cardinality(same) - 1
                        /\ \A i \in mine :
                              /\ i.existing # i.path
                              /\ {i.existing, i.path} \subseteq same
                              /\ Cardinality(same) = 2 => {i.existing, i.path} = same
               /\ \A i \in duplicates : \E q \in ValidPlans(files) : files[q].id = i.id
               /\ loc[p].snap.error_count >= Cardinality(duplicates)

\* three valid files with one id: two duplicate errors
C25_Witness ==
    \E p \in Procs :
        /\ Collected(p)
        /\ \E id \in IdInputs :
              /\ Cardinality({q \in ValidPlans(files) : files[q].id = id}) = 3
              /\ Cardinality({i \in loc[p].snap.issues :
                                 i.kind = "duplicate" /\ i.id = id}) = 2
\* two valid files with one id: one duplicate error
C25_WitnessPair ==
    \E p \in Procs :
        /\ Collected(p)
        /\ \E id \in IdInputs :
              /\ Cardinality({q \in ValidPlans(files) : files[q].id = id}) = 2
              /\ Cardinality({i \in loc[p].snap.issues :
                                 i.kind = "duplicate" /\ i.id = id}) = 1

Entry(f, q, relation) == IF relation = "depends_on" THEN f[q].dep ELSE f[q].sup
Reported(p, q, relation) ==
    {i \in loc[p].snap.issues :
        /\ i.kind \in {"invalid", "unknown"}
        /\ i.path = q
        /\ i.relation = relation
        /\ i.id = Entry(files, q, relation)}

\* C26: for every parsed plan and each of its depends_on and supersedes
\* entries, collect_execplan_registry reports an error exactly when the entry
\* is not an ExecPlan id or is the id of no plan parsed in the same scan; an
\* entry that names a plan file that is there but failed validation is
\* reported as unknown; an entry that names a parsed plan has no error.
C26_RelationIssues ==
    \A p \in Procs :
        Collected(p) =>
            /\ \A q \in ValidPlans(files), relation \in {"depends_on", "supersedes"} :
                  LET entry == Entry(files, q, relation)
                      resolvable == \E t \in ValidPlans(files) : files[t].id = entry
                      failed == \E t \in _iter_execplan_files(files) \ ValidPlans(files) :
                                    extract_execplan_id_from_filename(Name(t)) = entry
                  IN entry # NoId =>
                        /\ Reported(p, q, relation) # {} <=>
                              (entry = BadRef \/ ~resolvable)
                        /\ Cardinality(Reported(p, q, relation)) <= 1
                        /\ (failed /\ ~resolvable) =>
                              \E i \in Reported(p, q, relation) : i.kind = "unknown"
            /\ \A i \in loc[p].snap.issues :
                  i.kind \in {"invalid", "unknown"} =>
                      /\ i.path \in ValidPlans(files)
                      /\ i \in Reported(p, i.path, i.relation)
            /\ loc[p].snap.error_count >= Cardinality(loc[p].snap.issues)

\* one plan with an entry that names a parsed plan (no error) and an entry
\* that names a file that failed validation (unknown)
C26_Witness ==
    \E p \in Procs :
        /\ Collected(p)
        /\ \E q \in ValidPlans(files) :
              /\ \E t \in ValidPlans(files) : files[t].id = files[q].sup
              /\ Reported(p, q, "supersedes") = {}
              /\ \E t \in _iter_execplan_files(files) \ ValidPlans(files) :
                    extract_execplan_id_from_filename(Name(t)) = files[q].dep
              /\ \E i \in Reported(p, q, "depends_on") : i.kind = "unknown"
\* an entry that is no id is reported as invalid
C26_WitnessInvalid ==
    \E p \in Procs :
        /\ Collected(p)
        /\ \E q \in ValidPlans(files) :
              /\ files[q].dep = BadRef
              /\ \E i \in Reported(p, q, "depends_on") : i.kind = "invalid"

\* archive/YYYY/MM/DD/<slug>/...: six parts or more under a date
DatedArchiveLayout(q) ==
    /\ Len(q) >= 6
    /\ q[1] = Dir("archive")
    /\ q[2].k = "num" /\ q[2].m = 4
    /\ q[3].k = "num" /\ q[3].m = 2 /\ q[3].d \in 1..12
    /\ q[4].k = "num" /\ q[4].m = 2 /\ q[4].d \in 1..31
\* <slug>/archive/...: three parts or more, the slug not "active"
LegacyArchiveLayout(q) ==
    /\ Len(q) >= 3
    /\ q[2] = Dir("archive")
    /\ q[1] # Dir("active")

\* C27: is_execplan_archive_path is true exactly for a path outside every
\* milestone subtree that matches archive/YYYY/MM/DD/<slug>/... (six parts or
\* more, date-like) or <slug>/archive/... (three parts or more, slug other
\* than active). A plan at archive/<file>, active/archive/<file> or
\* active/<file> is not archived and has the plan root archive/,
\* active/archive/ and active/.
C27_ArchivePathClassification ==
    probeOut.asked =>
        /\ probeOut.archived <=>
              /\ ~probeOut.milestone
              /\ DatedArchiveLayout(probePath) \/ LegacyArchiveLayout(probePath)
        /\ probeOut.milestone = is_execplan_milestone_path(probePath)
        /\ probePath \in {<<Dir("archive"), Dir("a")>>,
                          <<Dir("active"), Dir("archive"), Dir("a")>>,
                          <<Dir("active"), Dir("a")>>} =>
              /\ ~probeOut.archived
              /\ probeOut.ok
              /\ probeOut.root = Parent(probePath)

\* a dated archive path of six parts is archived, its plan root the slug
\* directory under the date
C27_Witness ==
    /\ probeOut.asked
    /\ probeOut.archived
    /\ Len(probePath) = 6
    /\ DatedArchiveLayout(probePath)
    /\ probeOut.root = SubSeq(probePath, 1, 5)
\* a path under a directory merely named archive
C27_WitnessNamedArchive ==
    /\ probeOut.asked
    /\ probePath = <<Dir("active"), Dir("archive"), Dir("a")>>
    /\ ~probeOut.archived
\* a legacy archive path inside a milestone subtree
C27_WitnessMilestone ==
    /\ probeOut.asked
    /\ LegacyArchiveLayout(probePath)
    /\ probeOut.milestone
    /\ ~probeOut.archived

StreamOver == consumerPc \in {"ended", "raised"}
ReceivedItems == SubSeq(received, 1, Len(received) - 1)
LastReceived == received[Len(received)]

\* C28: the consumer of iterate_in_thread receives exactly the items the
\* blocking iterator produced, in order, and then the end of the iteration;
\* when the iterator raises after k items, it receives those k items in
\* order and then the same exception, and nothing after it.
C28_StreamDelivers ==
    StreamOver =>
        /\ ReceivedItems = [i \in 1..Len(source.items) |-> Item(source.items[i])]
        /\ source.raises = "none" => LastReceived.kind = "end"
        /\ source.raises # "none" =>
              /\ LastReceived.kind = "raised"
              /\ LastReceived.error = Raised(source.raises, "iterator")

\* the part of C28 that holds: the items arrive in order, a normal end is an
\* end, a failure is a raised exception after the k items, and an exception
\* other than StopIteration and StopAsyncIteration is the one the iterator
\* raised
C28_StreamDeliversItems ==
    StreamOver =>
        /\ ReceivedItems = [i \in 1..Len(source.items) |-> Item(source.items[i])]
        /\ source.raises = "none" <=> LastReceived.kind = "end"
        /\ source.raises # "none" <=> LastReceived.kind = "raised"
        /\ source.raises \notin {"none", "StopIteration", "StopAsyncIteration"} =>
              LastReceived.error = Raised(source.raises, "iterator")
C28_Witness ==
    /\ StreamOver
    /\ Len(source.items) = 2
    /\ source.raises = "RuntimeError"
    /\ LastReceived.error = Raised("RuntimeError", "iterator")

\* C29: the Mutation Lock is released on every exit path of the lock-held
\* section (return, validation error, failed step, failed rollback): a
\* process outside the section holds no lock. With the blocking flock, a
\* process waiting for the lock of an id gets it.
C29_LockAlwaysReleased ==
    /\ [](\A p \in Procs : pc[p] \notin LockHeld => ~HoldsAnyLock(p))
    /\ \A p \in Procs : (pc[p] = "lock") ~> (pc[p] \in LockHeld /\ HoldsLock(p, loc[p].id))

\* a call has ended with the fatal rollback error and holds no lock, and the
\* process that waited for the lock of the same id is inside the section
C29_Witness ==
    \E p, q \in Procs :
        /\ pc[p] = "done"
        /\ loc[p].op \in LockedOps
        /\ loc[p].out = "fatal"
        /\ ~HoldsAnyLock(p)
        /\ pc[q] \in LockHeld
        /\ loc[q].id = loc[p].id
        /\ lockHolder[loc[q].id] = q

\* C30: when concurrent create_execplan and archive_execplan calls with
\* update_registry have all returned with wrote_registry = True, the registry
\* file holds what a fresh collect_execplan_registry over the final tree
\* returns: no older snapshot was written over a newer one.
C30_RegistryIsFresh ==
    (\A p \in Procs :
        /\ pc[p] = "done"
        /\ loc[p].op \in {"create_execplan", "archive_execplan"}
        /\ loc[p].out = "ok"
        /\ loc[p].upd
        /\ loc[p].wrote) =>
        /\ registry.present
        /\ registry.plans = collect_execplan_registry(files).plans

====
